---------------------------- MODULE Spec2Model ----------------------------
(***************************************************************************)
(* The import decoders of IceBox (services/import.ts): parseObservationsCsv *)
(* and parseAspectTextFile, with the row decoders they call.               *)
(*                                                                         *)
(* Text is modelled character by character: a string is a sequence of      *)
(* one-character strings, so that trim, split, indexOf, parseFloat, Date   *)
(* parsing and JSON.parse are computed as the code computes them.  A file  *)
(* content is held as the sequence of its lines, i.e. content.split('\n'). *)
(* A number is an integer scaled by Scale (four fractional digits).        *)
(*                                                                         *)
(* A local of the code that is read more than once is a parameter of a     *)
(* helper operator here (RowFrom, LineBranch, ...), which TLC evaluates    *)
(* once.                                                                   *)
(***************************************************************************)
EXTENDS Integers, Sequences, FiniteSets, TLC

(***************************************************************************)
(* Bounds of the model.                                                    *)
(***************************************************************************)
\* most data lines offered after the header of a generated file
MaxRows == 2

\* the imports the page starts, and the file reads it has pending at a time
MaxImports == 1

MaxReading == 1

(***************************************************************************)
(* Strings.                                                                *)
(***************************************************************************)
Scale == 10^4

WhiteSpace == {" ", "\t", "\r", "\n"}

Digits == <<"0","1","2","3","4","5","6","7","8","9">>

IsDigit(c) == \E i \in 1..10 : Digits[i] = c

DigitVal(c) == (CHOOSE i \in 1..10 : Digits[i] = c) - 1

\* s.substring(from - 1), 1-based
Drop(s, from) == IF from > Len(s) THEN <<>> ELSE SubSeq(s, from, Len(s))

\* the elements of a sequence
Range(s) == {s[i] : i \in 1..Len(s)}

\* s.startsWith(p)
StartsWith(s, p) == Len(s) >= Len(p) /\ SubSeq(s, 1, Len(p)) = p

\* s.endsWith(p)
EndsWith(s, p) == Len(s) >= Len(p) /\ SubSeq(s, Len(s) - Len(p) + 1, Len(s)) = p

\* the positions of s that hold no white space
Inked(s) == {i \in 1..Len(s) : s[i] \notin WhiteSpace}

\* the least and the greatest element of a non-empty set of numbers
Least(S) == CHOOSE i \in S : \A j \in S : i <= j

Greatest(S) == CHOOSE i \in S : \A j \in S : j <= i

\* String.prototype.trimStart
TrimStart(s) == IF Inked(s) = {} THEN <<>> ELSE SubSeq(s, Least(Inked(s)), Len(s))

\* String.prototype.trimEnd
TrimEnd(s) == IF Inked(s) = {} THEN <<>> ELSE SubSeq(s, 1, Greatest(Inked(s)))

\* String.prototype.trim
Trim(s) == TrimEnd(TrimStart(s))

\* the k-th of the positions `at`, counting 0 as the 0-th and last + 1 as
\* the one after the greatest
Cut(at, k, last) ==
  IF k = 0 THEN 0
  ELSE IF k > Cardinality(at) THEN last + 1
  ELSE CHOOSE i \in at : Cardinality({j \in at : j < i}) = k - 1

\* the pieces of s between the consecutive positions `at`
Pieces(s, at) ==
  [k \in 1..(Cardinality(at) + 1) |->
     SubSeq(s, Cut(at, k - 1, Len(s)) + 1, Cut(at, k, Len(s)) - 1)]

\* String.prototype.split(d) for a one-character separator d
Split(s, d) == Pieces(s, {i \in 1..Len(s) : s[i] = d})

\* Array.prototype.indexOf, 1-based here; 0 when absent (JS: -1)
IndexOf(arr, x) ==
  IF \E i \in 1..Len(arr) : arr[i] = x
  THEN CHOOSE i \in 1..Len(arr) : arr[i] = x /\ \A j \in 1..(i - 1) : arr[j] # x
  ELSE 0

\* String.prototype.includes
Includes(s, p) == \E i \in 1..(Len(s) - Len(p) + 1) : SubSeq(s, i, i + Len(p) - 1) = p

\* the length of the run of digits at the front of s
DigitRun(s) ==
  IF \A i \in 1..Len(s) : IsDigit(s[i]) THEN Len(s)
  ELSE Least({i \in 1..Len(s) : ~IsDigit(s[i])}) - 1

\* the value of a string of digits
RECURSIVE DigitsVal(_)
DigitsVal(s) ==
  IF s = <<>> THEN 0 ELSE 10 * DigitsVal(SubSeq(s, 1, Len(s) - 1)) + DigitVal(s[Len(s)])

(***************************************************************************)
(* Numbers: [k |-> "num", v |-> value * Scale], NaN, +Infinity, -Infinity.  *)
(***************************************************************************)
NaN == [k |-> "nan", v |-> 0]

Num(v) == [k |-> "num", v |-> v]

Inf(sign) == [k |-> "inf", v |-> sign]

IsNaN(n) == n.k = "nan"

\* n < b and n > b for a finite bound b given in whole units; false for NaN
LessThan(n, b) ==
  \/ n.k = "num" /\ n.v < b * Scale
  \/ n.k = "inf" /\ n.v < 0

GreaterThan(n, b) ==
  \/ n.k = "num" /\ n.v > b * Scale
  \/ n.k = "inf" /\ n.v > 0

\* lo <= n <= hi, as the code writes it: n >= lo && n <= hi
Within(n, lo, hi) == ~IsNaN(n) /\ ~LessThan(n, lo) /\ ~GreaterThan(n, hi)

\* n >= lo
AtLeast(n, lo) == ~IsNaN(n) /\ ~LessThan(n, lo)

S_Infinity == <<"I","n","f","i","n","i","t","y">>

\* the digits d with the sign of the exponent they follow
SignedDigits(neg, d) ==
  IF DigitRun(d) = 0 THEN 0
  ELSE IF neg THEN 0 - DigitsVal(SubSeq(d, 1, DigitRun(d)))
  ELSE DigitsVal(SubSeq(d, 1, DigitRun(d)))

\* the exponent part at the front of s: e or E, an optional sign and at
\* least one digit; 0 when s does not start with one
ExponentOf(s) ==
  IF s = <<>> \/ Head(s) \notin {"e", "E"} THEN 0
  ELSE IF Len(s) >= 2 /\ s[2] \in {"+", "-"} THEN SignedDigits(s[2] = "-", Drop(s, 3))
  ELSE SignedDigits(FALSE, Tail(s))

\* mant * 10^e, scaled
Scaled(mant, e) ==
  IF e >= 0 THEN mant * Scale * 10^e
  ELSE IF 10^(0 - e) <= Scale THEN mant * (Scale \div 10^(0 - e))
  ELSE mant \div (10^(0 - e) \div Scale)

\* the number whose digits before the point are int, after it frac, and
\* whose exponent part is at the front of rest
Decimal(neg, int, frac, rest) ==
  IF int = <<>> /\ frac = <<>> THEN NaN
  ELSE IF neg THEN Num(0 - Scaled(DigitsVal(int \o frac), ExponentOf(rest) - Len(frac)))
  ELSE Num(Scaled(DigitsVal(int \o frac), ExponentOf(rest) - Len(frac)))

\* int: the digits before the point; a: what follows them
AfterInt(neg, int, a) ==
  IF a # <<>> /\ Head(a) = "."
  THEN Decimal(neg, int, SubSeq(a, 2, DigitRun(Tail(a)) + 1), Drop(a, DigitRun(Tail(a)) + 2))
  ELSE Decimal(neg, int, <<>>, a)

\* u: the text after the sign
Unsigned(neg, u) ==
  IF StartsWith(u, S_Infinity) THEN Inf(IF neg THEN -1 ELSE 1)
  ELSE AfterInt(neg, SubSeq(u, 1, DigitRun(u)), Drop(u, DigitRun(u) + 1))

\* s: the text without leading white space
SignedNumber(s) ==
  IF s # <<>> /\ Head(s) \in {"+", "-"} THEN Unsigned(Head(s) = "-", Tail(s))
  ELSE Unsigned(FALSE, s)

\* parseFloat: leading white space is skipped, then the longest prefix that
\* is a decimal literal is converted; what follows it is ignored
ParseFloat(str) == SignedNumber(TrimStart(str))

(***************************************************************************)
(* Dates.  new Date(text) for the ISO shapes YYYY-MM-DD, optionally        *)
(* followed by T or a blank, hh:mm or hh:mm:ss, and optionally Z; every    *)
(* other text is an Invalid Date.  (Texts that only an engine's legacy     *)
(* date parser accepts, and days past the end of a month, are outside the  *)
(* inputs of this model.)  A date with a time and no Z is local time.      *)
(***************************************************************************)
InvalidDate == [valid |-> FALSE, t |-> <<>>, utc |-> TRUE]

AllDigits(s) == \A i \in 1..Len(s) : IsDigit(s[i])

\* <<h, m, s>> when they are a time of day, else <<>>
TimeOfDay(h, mi, sc) == IF h <= 23 /\ mi <= 59 /\ sc <= 59 THEN <<h, mi, sc>> ELSE <<>>

\* hh:mm or hh:mm:ss as <<h, m, s>>, or <<>> when t is not a time
TimeOf(t) ==
  IF /\ Len(t) \in {5, 8}
     /\ AllDigits(SubSeq(t, 1, 2)) /\ t[3] = ":" /\ AllDigits(SubSeq(t, 4, 5))
     /\ (Len(t) = 5 \/ (t[6] = ":" /\ AllDigits(SubSeq(t, 7, 8))))
  THEN TimeOfDay(DigitsVal(SubSeq(t, 1, 2)), DigitsVal(SubSeq(t, 4, 5)),
                 IF Len(t) = 8 THEN DigitsVal(SubSeq(t, 7, 8)) ELSE 0)
  ELSE <<>>

\* what follows YYYY-MM-DD: nothing, or T or a blank and a time, Z allowed
TimeAfterDate(rest) ==
  IF rest = <<>> THEN <<0, 0, 0>>
  ELSE IF Head(rest) \notin {"T", " "} THEN <<>>
  ELSE IF rest[Len(rest)] = "Z" THEN TimeOf(SubSeq(rest, 2, Len(rest) - 1))
  ELSE TimeOf(SubSeq(rest, 2, Len(rest)))

DateOf(y, mo, d, tm, utc) ==
  IF mo \in 1..12 /\ d \in 1..31 /\ tm # <<>>
  THEN [valid |-> TRUE, t |-> <<y, mo, d>> \o tm, utc |-> utc]
  ELSE InvalidDate

ParseDate(s) ==
  IF /\ Len(s) >= 10
     /\ AllDigits(SubSeq(s, 1, 4)) /\ s[5] = "-"
     /\ AllDigits(SubSeq(s, 6, 7)) /\ s[8] = "-"
     /\ AllDigits(SubSeq(s, 9, 10))
  THEN DateOf(DigitsVal(SubSeq(s, 1, 4)), DigitsVal(SubSeq(s, 6, 7)),
              DigitsVal(SubSeq(s, 9, 10)), TimeAfterDate(Drop(s, 11)),
              Len(s) = 10 \/ s[Len(s)] = "Z")
  ELSE InvalidDate

(***************************************************************************)
(* JSON.parse of an object whose members are strings: white space between  *)
(* tokens is allowed, strings hold no escape.  ok is FALSE where           *)
(* JSON.parse throws.  (Objects with other kinds of member are outside the *)
(* inputs of this model.)  An object is a function from its keys.          *)
(***************************************************************************)
JsonFail == [ok |-> FALSE, obj |-> <<>>]

\* the string literal of s that ends at the quote at `close`
JsonStringTo(s, close) ==
  [ok |-> \A j \in 2..(close - 1) : s[j] # "\\",
   str |-> SubSeq(s, 2, close - 1), rest |-> Drop(s, close + 1)]

\* the string literal at the front of s and what follows it
JsonString(s) ==
  IF s = <<>> \/ Head(s) # "\"" \/ ~(\E i \in 2..Len(s) : s[i] = "\"")
  THEN [ok |-> FALSE, str |-> <<>>, rest |-> <<>>]
  ELSE JsonStringTo(s, Least({i \in 2..Len(s) : s[i] = "\""}))

\* the members of an object from the first key on, up to the closing brace
RECURSIVE JsonMembers(_, _)

\* b: what follows the member key: val
JsonAfterMember(key, val, b, obj) ==
  IF ~val.ok \/ b = <<>> THEN JsonFail
  ELSE IF Head(b) = "," THEN JsonMembers(Tail(b), (key.str :> val.str) @@ obj)
  ELSE IF Head(b) = "}" /\ TrimStart(Tail(b)) = <<>>
  THEN [ok |-> TRUE, obj |-> (key.str :> val.str) @@ obj]
  ELSE JsonFail

JsonValue(key, val, obj) == JsonAfterMember(key, val, TrimStart(val.rest), obj)

\* a: what follows the key
JsonAfterKey(key, a, obj) ==
  IF ~key.ok \/ a = <<>> \/ Head(a) # ":" THEN JsonFail
  ELSE JsonValue(key, JsonString(TrimStart(Tail(a))), obj)

JsonKey(key, obj) == JsonAfterKey(key, TrimStart(key.rest), obj)

JsonMembers(s, obj) == JsonKey(JsonString(TrimStart(s)), obj)

\* a: what follows the opening brace
JsonObject(a) ==
  IF a # <<>> /\ Head(a) = "}" /\ TrimStart(Tail(a)) = <<>> THEN [ok |-> TRUE, obj |-> <<>>]
  ELSE JsonMembers(a, <<>>)

JsonParse(text) ==
  IF TrimStart(text) = <<>> \/ Head(TrimStart(text)) # "{" THEN JsonFail
  ELSE JsonObject(TrimStart(Tail(TrimStart(text))))

(***************************************************************************)
(* parseAspectRow: one semicolon-delimited data line against the header.   *)
(***************************************************************************)
\* the header names parseAspectRow looks up
F ==
  [ date |-> <<"d","a","t","e">>,
    time |-> <<"t","i","m","e">>,
    latitude |-> <<"l","a","t","i","t","u","d","e">>,
    longitude |-> <<"l","o","n","g","i","t","u","d","e">>,
    total_ice_concentration |-> <<"t","o","t","a","l","_","i","c","e","_","c","o","n","c","e","n","t","r","a","t","i","o","n">>,
    open_water_type |-> <<"o","p","e","n","_","w","a","t","e","r","_","t","y","p","e">>,
    ice_concentration |-> <<"i","c","e","_","c","o","n","c","e","n","t","r","a","t","i","o","n">>,
    ice_type |-> <<"i","c","e","_","t","y","p","e">>,
    ice_thickness |-> <<"i","c","e","_","t","h","i","c","k","n","e","s","s">>,
    floe_size |-> <<"f","l","o","e","_","s","i","z","e">>,
    topography |-> <<"t","o","p","o","g","r","a","p","h","y">>,
    snow_type |-> <<"s","n","o","w","_","t","y","p","e">>,
    snow_thickness |-> <<"s","n","o","w","_","t","h","i","c","k","n","e","s","s">>,
    brown_ice |-> <<"b","r","o","w","n","_","i","c","e">>,
    melt_pond_areal_coverage |-> <<"m","e","l","t","_","p","o","n","d","_","a","r","e","a","l","_","c","o","v","e","r","a","g","e">>,
    melt_pond_depth |-> <<"m","e","l","t","_","p","o","n","d","_","d","e","p","t","h">>,
    melt_pond_length_1 |-> <<"m","e","l","t","_","p","o","n","d","_","l","e","n","g","t","h","_","1">>,
    melt_pond_length_2 |-> <<"m","e","l","t","_","p","o","n","d","_","l","e","n","g","t","h","_","2">>,
    water_temp |-> <<"w","a","t","e","r","_","t","e","m","p">>,
    air_temp |-> <<"a","i","r","_","t","e","m","p">>,
    wind_speed |-> <<"w","i","n","d","_","s","p","e","e","d">>,
    wind_direction |-> <<"w","i","n","d","_","d","i","r","e","c","t","i","o","n">>,
    cloud_cover |-> <<"c","l","o","u","d","_","c","o","v","e","r">>,
    visibility |-> <<"v","i","s","i","b","i","l","i","t","y">>,
    weather |-> <<"w","e","a","t","h","e","r">>,
    observer |-> <<"o","b","s","e","r","v","e","r">>,
    comments |-> <<"c","o","m","m","e","n","t","s">> ]

IceObsPrefix == <<"i","c","e","_","o","b","s","e","r","v","a","t","i","o","n","s",".">>

Midnight == <<"0","0",":","0","0",":","0","0">>

\* SyncStatus.LOCAL
SyncLocal == 0

\* getNum's null
Null == [k |-> "null", v |-> 0]

\* the result of a row decoder: the record, or the message of the Error thrown
Accepted(obs) == [ok |-> TRUE, obs |-> obs, msg |-> "", arg |-> <<>>]

Thrown(msg, arg) == [ok |-> FALSE, obs |-> <<>>, msg |-> msg, arg |-> arg]

\* if (cond) o.field = value
SetIf(cond, field, value, o) == IF cond THEN (field :> value) @@ o ELSE o

\* if (v) o.field = v
SetText(field, v, o) == IF v # <<>> THEN (field :> v) @@ o ELSE o

\* if (n !== null) o.field = n
SetNum(field, n, o) == IF n # Null THEN (field :> n) @@ o ELSE o

\* values[idx] ?? '', trimmed, for the 1-based idx; '' when idx is 0
ValueAt(values, idx) ==
  IF idx > 0 THEN (IF idx <= Len(values) THEN Trim(values[idx]) ELSE <<>>) ELSE <<>>

\* the columns of a layout with fixed positions
FixedColumns == <<F.date, F.time, F.latitude, F.longitude>>

\* get(field) by column position instead of header name
AspectGetFixed(values, headers, field) == ValueAt(values, IndexOf(FixedColumns, field))

\* get(field)
AspectGet(values, headers, field) == ValueAt(values, IndexOf(headers, field))

\* null for NaN
NotNaN(n) == IF IsNaN(n) THEN Null ELSE n

\* the number in the text v: null when v is empty or no number
NumberOrNull(v) == IF v = <<>> THEN Null ELSE NotNaN(ParseFloat(v))

\* getNum(field)
AspectGetNum(values, headers, field) == NumberOrNull(AspectGet(values, headers, field))

\* the optional attributes of buildIceObs, added to ice; p is the prefix
IceOptional(values, headers, p, ice) ==
  LET get(f) == AspectGet(values, headers, p \o f)
      num(f) == AspectGetNum(values, headers, p \o f)
      i1 == SetText("snow_type", get(F.snow_type), ice)
      i2 == SetText("snow_thickness", get(F.snow_thickness), i1)
      i3 == SetText("brown_ice", get(F.brown_ice), i2)
      i4 == SetNum("melt_pond_coverage", num(F.melt_pond_areal_coverage), i3)
      i5 == SetNum("melt_pond_depth", num(F.melt_pond_depth), i4)
      i6 == SetNum("melt_pond_length_1", num(F.melt_pond_length_1), i5)
  IN  SetNum("melt_pond_length_2", num(F.melt_pond_length_2), i6)

\* a buildIceObs without its `return undefined`
IceFromAlways(values, headers, p, conc, type) ==
  <<IceOptional(values, headers, p,
      [ice_concentration |-> IF conc = Null THEN Num(0) ELSE conc,
       ice_type |-> type,
       ice_thickness |-> AspectGet(values, headers, p \o F.ice_thickness),
       floe_size |-> AspectGet(values, headers, p \o F.floe_size),
       topography |-> AspectGet(values, headers, p \o F.topography)])>>

\* a buildIceObs that sets ice_thickness, floe_size and topography only
\* when they are not blank
IceFromSparse(values, headers, p, conc, type) ==
  IF conc = Null /\ type = <<>> THEN <<>>
  ELSE <<IceOptional(values, headers, p,
           SetText("ice_thickness", AspectGet(values, headers, p \o F.ice_thickness),
             SetText("floe_size", AspectGet(values, headers, p \o F.floe_size),
               SetText("topography", AspectGet(values, headers, p \o F.topography),
                 [ice_concentration |-> IF conc = Null THEN Num(0) ELSE conc,
                  ice_type |-> type]))))>>

\* buildIceObs from conc and type on: <<>> for undefined, else <<ice>>
IceFrom(values, headers, p, conc, type) ==
  IF conc = Null /\ type = <<>> THEN <<>>
  ELSE <<IceOptional(values, headers, p,
           [ice_concentration |-> IF conc = Null THEN Num(0) ELSE conc,
            ice_type |-> type,
            ice_thickness |-> AspectGet(values, headers, p \o F.ice_thickness),
            floe_size |-> AspectGet(values, headers, p \o F.floe_size),
            topography |-> AspectGet(values, headers, p \o F.topography)])>>

\* the prefix `ice_observations.${n}.`
IcePrefix(n) == IceObsPrefix \o <<Digits[n + 1], ".">>

\* buildIceObs(n)
BuildIceObs(values, headers, n) ==
  IceFrom(values, headers, IcePrefix(n),
          AspectGetNum(values, headers, IcePrefix(n) \o F.ice_concentration),
          AspectGet(values, headers, IcePrefix(n) \o F.ice_type))

\* if (ice) o.field = ice
SetIce(field, ice, o) == IF ice # <<>> THEN (field :> ice[1]) @@ o ELSE o

\* the three category slots of parseAspectRow, added to observation o
AspectIce(values, headers, o) ==
  SetIce("tertiary_ice", BuildIceObs(values, headers, 3),
    SetIce("secondary_ice", BuildIceObs(values, headers, 2),
      SetIce("primary_ice", BuildIceObs(values, headers, 1), o)))

\* ws !== null && ws >= 0
WindSpeedOk(ws) == ws # Null /\ AtLeast(ws, 0)

\* a wind direction taken whatever its value
WindDirectionAny(wd) == wd # Null

\* wd !== null && wd >= 0 && wd <= 360
WindDirectionOk(wd) == wd # Null /\ Within(wd, 0, 360)

\* cloud !== null && cloud >= 0 && cloud <= 8
CloudCoverOk(cloud) == cloud # Null /\ Within(cloud, 0, 8)

\* the weather numbers of parseAspectRow, added to observation o
AspectWeather(values, headers, o) ==
  LET num(f) == AspectGetNum(values, headers, f)
      o1  == SetNum("water_temp", num(F.water_temp), o)
      o2  == SetNum("air_temp", num(F.air_temp), o1)
      o3  == SetIf(WindSpeedOk(num(F.wind_speed)), "wind_speed", num(F.wind_speed), o2)
      o4  == SetIf(WindDirectionOk(num(F.wind_direction)), "wind_direction",
                   num(F.wind_direction), o3)
  IN  SetIf(CloudCoverOk(num(F.cloud_cover)), "cloud_cover", num(F.cloud_cover), o4)

\* the text fields at the end of parseAspectRow, added to observation o
AspectTexts(values, headers, o) ==
  LET get(f) == AspectGet(values, headers, f)
      o1 == SetText("visibility", get(F.visibility), o)
      o2 == SetText("weather", get(F.weather), o1)
      o3 == SetText("observer", get(F.observer), o2)
  IN  SetText("comments", get(F.comments), o3)

\* parseAspectRow from the observation object literal on
AspectOptional(values, headers, o) ==
  LET o1 == SetNum("total_ice_concentration",
                   AspectGetNum(values, headers, F.total_ice_concentration), o)
      o2 == SetText("open_water_type", AspectGet(values, headers, F.open_water_type), o1)
      o3 == AspectIce(values, headers, o2)
      o4 == AspectWeather(values, headers, o3)
  IN  AspectTexts(values, headers, o4)

\* an entry date without the default time of day
EntryDateNoDefault(dateStr, timeStr) ==
  ParseDate(dateStr \o <<"T">> \o timeStr \o <<"Z">>)

\* new Date(`${dateStr}T${timeStr || '00:00:00'}Z`)
EntryDate(dateStr, timeStr) ==
  ParseDate(dateStr \o <<"T">> \o (IF timeStr # <<>> THEN timeStr ELSE Midnight) \o <<"Z">>)

\* parseAspectRow from its checks on
AspectChecked(values, headers, dateStr, timeStr, entryDate, lat, lon) ==
  IF dateStr = <<>> THEN Thrown("date is required", <<>>)
  ELSE IF ~entryDate.valid THEN Thrown("Invalid date/time", dateStr \o <<" ">> \o timeStr)
  ELSE IF lat = Null \/ LessThan(lat, -90) \/ GreaterThan(lat, 90)
  THEN Thrown("Invalid latitude", AspectGet(values, headers, F.latitude))
  ELSE IF lon = Null \/ LessThan(lon, -180) \/ GreaterThan(lon, 180)
  THEN Thrown("Invalid longitude", AspectGet(values, headers, F.longitude))
  ELSE Accepted(AspectOptional(values, headers,
                  [entry_datetime |-> entryDate, latitude |-> lat, longitude |-> lon,
                   syncStatus |-> SyncLocal, localChanges |-> 1]))

\* parseAspectRow once dateStr and timeStr are read
AspectDated(values, headers, dateStr, timeStr) ==
  AspectChecked(values, headers, dateStr, timeStr, EntryDate(dateStr, timeStr),
                AspectGetNum(values, headers, F.latitude),
                AspectGetNum(values, headers, F.longitude))

\* parseAspectRow once the line is split
AspectValues(values, headers) ==
  AspectDated(values, headers, AspectGet(values, headers, F.date),
              AspectGet(values, headers, F.time))

ParseAspectRow(line, headers) == AspectValues(Split(line, ";"), headers)

(***************************************************************************)
(* parseAspectTextFile: the scanner over content.split('\n').              *)
(***************************************************************************)
Marker == <<"-","-","-","O","B","S","E","R","V","A","T","I","O","N","S","-","-","-">>

\* the ImportResult a decoder starts from
EmptyResult ==
  [success |-> FALSE, imported |-> 0, errors |-> <<>>, observations |-> <<>>,
   cruiseMeta |-> <<>>]

\* the locals of parseAspectTextFile before the first line
AspectStart ==
  [headerFields |-> <<>>, inObservations |-> FALSE, headerParsed |-> FALSE,
   result |-> EmptyResult]

\* an entry of result.errors: the number after "Row" or "Line", the message
\* and the value quoted in it
ErrorEntry(n, msg, arg) == [row |-> n, msg |-> msg, arg |-> arg]

\* a row error that cites the 0-based index of the line
AspectErrorIndex(lineIndex) == lineIndex

\* the line number parseAspectTextFile writes into a row error
AspectErrorLine(lineIndex) == lineIndex + 1

\* a callback that stops evaluating rows once a line has been rejected
KindOfAborting(st, trimmed, lineIndex) ==
  IF trimmed = <<>> THEN "blank"
  ELSE IF lineIndex = 0 /\ StartsWith(trimmed, <<"{">>)
  THEN (IF JsonParse(trimmed).ok THEN "meta" ELSE "metaError")
  ELSE IF trimmed = Marker THEN "marker"
  ELSE IF ~st.inObservations \/ st.result.errors # <<>> THEN "ignored"
  ELSE IF ~st.headerParsed THEN "header"
  ELSE IF ParseAspectRow(trimmed, st.headerFields).ok THEN "record"
  ELSE "error"

\* a callback that takes every line holding the marker token for the marker
KindOfIncluding(st, trimmed, lineIndex) ==
  IF trimmed = <<>> THEN "blank"
  ELSE IF lineIndex = 0 /\ StartsWith(trimmed, <<"{">>)
  THEN (IF JsonParse(trimmed).ok THEN "meta" ELSE "metaError")
  ELSE IF Includes(trimmed, Marker) THEN "marker"
  ELSE IF ~st.inObservations THEN "ignored"
  ELSE IF ~st.headerParsed THEN "header"
  ELSE IF ParseAspectRow(trimmed, st.headerFields).ok THEN "record"
  ELSE "error"

\* the branch the forEach callback takes for the trimmed line
KindOf(st, trimmed, lineIndex) ==
  IF trimmed = <<>> THEN "blank"
  ELSE IF lineIndex = 0 /\ StartsWith(trimmed, <<"{">>)
  THEN (IF JsonParse(trimmed).ok THEN "meta" ELSE "metaError")
  ELSE IF trimmed = Marker THEN "marker"
  ELSE IF ~st.inObservations THEN "ignored"
  ELSE IF ~st.headerParsed THEN "header"
  ELSE IF ParseAspectRow(trimmed, st.headerFields).ok THEN "record"
  ELSE "error"

\* the branch the forEach callback takes for one line
AspectLineKind(st, line, lineIndex) == KindOf(st, Trim(line), lineIndex)

\* try { observations.push(parseAspectRow(..)) } catch { errors.push(..) }
PushAspectRow(st, row, lineIndex) ==
  IF row.ok THEN [st EXCEPT !.result.observations = Append(@, row.obs)]
  ELSE [st EXCEPT !.result.errors =
          Append(@, ErrorEntry(AspectErrorLine(lineIndex), row.msg, row.arg))]

\* a failed JSON.parse that leaves an empty cruiseMeta behind
MetaFailedEmpty(st) ==
  [st EXCEPT !.result.errors =
               Append(@, ErrorEntry(1, "Failed to parse cruise metadata JSON", <<>>)),
             !.result.cruiseMeta = <<<<>>>>]

\* catch { result.errors.push('Line 1: Failed to parse cruise metadata JSON') }
MetaFailed(st) ==
  [st EXCEPT !.result.errors =
     Append(@, ErrorEntry(1, "Failed to parse cruise metadata JSON", <<>>))]

\* the forEach callback, given the branch it takes
LineBranch(st, trimmed, lineIndex, kind) ==
  CASE kind = "meta" -> [st EXCEPT !.result.cruiseMeta = <<JsonParse(trimmed).obj>>]
    [] kind = "metaError" -> MetaFailed(st)
    [] kind = "marker" -> [st EXCEPT !.inObservations = TRUE]
    [] kind = "header" ->
         [st EXCEPT !.headerFields = Split(trimmed, ";"), !.headerParsed = TRUE]
    [] kind \in {"record", "error"} ->
         PushAspectRow(st, ParseAspectRow(trimmed, st.headerFields), lineIndex)
    [] OTHER -> st

\* the forEach callback of parseAspectTextFile on one line
AspectLine(st, line, lineIndex) ==
  LineBranch(st, Trim(line), lineIndex, AspectLineKind(st, line, lineIndex))

\* a result whose success is set without a look at its errors
FinishedAsSuccess(res) == [res EXCEPT !.success = TRUE, !.imported = Len(res.observations)]

\* result.success and result.imported, set when the rows are done
Finished(res) ==
  [res EXCEPT !.success = (Len(res.errors) = 0), !.imported = Len(res.observations)]

\* the locals of parseAspectTextFile after the first n lines of ls
RECURSIVE AspectScan(_, _)
AspectScan(ls, n) ==
  IF n = 0 THEN AspectStart ELSE AspectLine(AspectScan(ls, n - 1), ls[n], n - 1)

\* parseAspectTextFile(content), content given as its lines
ParseAspectTextFile(ls) == Finished(AspectScan(ls, Len(ls)).result)

(***************************************************************************)
(* Papa.parse(csvContent, {header: true, skipEmptyLines: true,             *)
(* transformHeader: trim}) of papaparse, as far as parseObservationsCsv    *)
(* uses it: a line is cut at the commas outside quotes, lines without any  *)
(* character are dropped, the first remaining line gives the keys and      *)
(* every other one a row object; a row whose number of cells differs from  *)
(* the number of keys is reported with its 0-based index among the rows,   *)
(* and a content whose lines have fewer than 1.99 cells on average (of its *)
(* first ten) is reported as having no detectable delimiter.  A quote     *)
(* inside a quoted cell that neither closes it nor is doubled is reported  *)
(* ("Trailing quote on quoted field is malformed", here "Malformed         *)
(* quotes"), as is a quoted cell that is never closed.  (Quoted cells that *)
(* run over the end of a line, and delimiters other than the comma, are    *)
(* outside the inputs of this model.)                                      *)
(***************************************************************************)
\* the text of a quoted cell: a doubled quote stands for one quote
RECURSIVE Unquote(_)
Unquote(s) ==
  IF s = <<>> THEN <<>>
  ELSE IF Len(s) >= 2 /\ s[1] = "\"" /\ s[2] = "\"" THEN <<"\"">> \o Unquote(Drop(s, 3))
  ELSE <<Head(s)>> \o Unquote(Tail(s))

\* the scan for the quote that closes the cell opened by the quote at 1.
\* A quote closes the cell when it is the last character, or when only
\* white space stands between it and the next comma or the end of the line;
\* a quote before a quote is half of a doubled quote; any other quote is
\* reported as malformed and the scan goes on.  close: the closing quote, 0
\* when there is none; invalid: the malformed quotes met on the way.
RECURSIVE QuoteScan(_, _)

\* the text between the quote at q and the next comma or the end of s
AfterQuote(s, q, commas) ==
  SubSeq(s, q + 1, IF commas = {} THEN Len(s) ELSE Least(commas) - 1)

QuoteAt(s, q) ==
  IF q = Len(s) THEN [close |-> q, invalid |-> 0]
  ELSE IF s[q + 1] = "\"" THEN QuoteScan(s, q + 2)
  ELSE IF Trim(AfterQuote(s, q, {i \in (q + 1)..Len(s) : s[i] = ","})) = <<>>
  THEN [close |-> q, invalid |-> 0]
  ELSE [QuoteScan(s, q + 1) EXCEPT !.invalid = @ + 1]

QuoteFrom(s, quotes) ==
  IF quotes = {} THEN [close |-> 0, invalid |-> 0] ELSE QuoteAt(s, Least(quotes))

QuoteScan(s, from) == QuoteFrom(s, {i \in from..Len(s) : s[i] = "\""})

\* the cells of one line.  A cell that starts with a quote runs to its
\* closing quote and the comma after it; any other cell to the next comma.
\* A quoted cell that is not closed takes the rest of the line.
RECURSIVE CsvCells(_)

\* cell, then the cells after the first of `commas`
CellThen(cell, s, commas) ==
  IF commas = {} THEN <<cell>> ELSE <<cell>> \o CsvCells(Drop(s, Least(commas) + 1))

PlainCell(s, commas) ==
  IF commas = {} THEN <<s>> ELSE CellThen(SubSeq(s, 1, Least(commas) - 1), s, commas)

QuotedCell(s, close) ==
  IF close = 0 THEN <<Drop(s, 2)>>
  ELSE CellThen(Unquote(SubSeq(s, 2, close - 1)), s,
                {i \in (close + 1)..Len(s) : s[i] = ","})

CsvCells(s) ==
  IF s # <<>> /\ Head(s) = "\""
  THEN QuotedCell(s, QuoteScan(s, 2).close)
  ELSE PlainCell(s, {i \in 1..Len(s) : s[i] = ","})

\* the number of Quotes errors of one line: its malformed quotes, and one
\* more for a quoted cell that is not closed
RECURSIVE QuoteCount(_)

QuoteCountAfter(s, commas) ==
  IF commas = {} THEN 0 ELSE QuoteCount(Drop(s, Least(commas) + 1))

QuoteCountOf(s, scan) ==
  IF scan.close = 0 THEN scan.invalid + 1
  ELSE scan.invalid
         + QuoteCountAfter(s, {i \in (scan.close + 1)..Len(s) : s[i] = ","})

QuoteCount(s) ==
  IF s # <<>> /\ Head(s) = "\"" THEN QuoteCountOf(s, QuoteScan(s, 2))
  ELSE QuoteCountAfter(s, {i \in 1..Len(s) : s[i] = ","})

\* the Quotes errors of the first n lines: the parser numbers a row by its
\* 0-based place among all the rows it reads, the header and the empty
\* lines included
RECURSIVE QuoteErrors(_, _)
QuoteErrors(ls, n) ==
  IF n = 0 THEN <<>>
  ELSE QuoteErrors(ls, n - 1)
         \o [k \in 1..QuoteCount(ls[n]) |-> [row |-> n - 1, message |-> "Trailing quote on quoted field is malformed"]]

\* the indices of the lines of ls that skipEmptyLines keeps, in order
RECURSIVE KeptLines(_, _)
KeptLines(ls, n) ==
  IF n = 0 THEN <<>>
  ELSE IF ls[n] = <<>> THEN KeptLines(ls, n - 1)
  ELSE Append(KeptLines(ls, n - 1), n)

RECURSIVE SumLen(_, _)
SumLen(rows, n) == IF n = 0 THEN 0 ELSE SumLen(rows, n - 1) + Len(rows[n])

\* the row object of header: true; a key of the header beyond the cells of
\* the row is missing from it
RowObject(fields, cells) ==
  [f \in {fields[j] : j \in {i \in 1..Len(fields) : i <= Len(cells)}} |->
     cells[Greatest({j \in 1..Len(cells) : j <= Len(fields) /\ fields[j] = f})]]

\* guessDelimiter fails on the first `seen` rows: the error names no row
\* (row -1 stands for undefined)
DelimiterErrors(rows, seen) ==
  IF seen = 0 \/ 100 * SumLen(rows, seen) <= 199 * seen
  THEN <<[row |-> -1, message |-> "Unable to auto-detect delimiting character"]>>
  ELSE <<>>

\* the FieldMismatch error of data row k (1-based), if it has one
Mismatch(rows, k) ==
  IF Len(rows[k + 1]) < Len(rows[1]) THEN <<[row |-> k - 1, message |-> "Too few fields"]>>
  ELSE IF Len(rows[k + 1]) > Len(rows[1])
  THEN <<[row |-> k - 1, message |-> "Too many fields"]>>
  ELSE <<>>

\* the FieldMismatch errors of the data rows 1..n, in order
RECURSIVE Mismatches(_, _)
Mismatches(rows, n) ==
  IF n = 0 THEN <<>> ELSE Mismatches(rows, n - 1) \o Mismatch(rows, n)

\* Papa.parse from the kept rows on.  data: the row objects; errors: Papa's
\* own errors; lineNo: for each row, the 1-based number of its line
PapaResult(rows, kept, quotes) ==
  IF Len(rows) = 0
  THEN [data |-> <<>>, errors |-> quotes \o DelimiterErrors(rows, 0), lineNo |-> <<>>]
  ELSE [data   |-> [k \in 1..(Len(rows) - 1) |->
                      RowObject([j \in 1..Len(rows[1]) |-> Trim(rows[1][j])], rows[k + 1])],
        errors |-> quotes \o DelimiterErrors(rows, IF Len(rows) < 10 THEN Len(rows) ELSE 10)
                     \o Mismatches(rows, Len(rows) - 1),
        lineNo |-> [k \in 1..(Len(rows) - 1) |-> kept[k + 1]]]

PapaKept(ls, kept) ==
  PapaResult([k \in 1..Len(kept) |-> CsvCells(ls[kept[k]])], kept, QuoteErrors(ls, Len(ls)))

PapaParse(ls) == PapaKept(ls, KeptLines(ls, Len(ls)))

(***************************************************************************)
(* parseObservationRow and parseObservationsCsv.                           *)
(***************************************************************************)
\* the column labels parseObservationRow looks up
H ==
  [ DateTime |-> <<"D","a","t","e","/","T","i","m","e">>,
    Latitude |-> <<"L","a","t","i","t","u","d","e">>,
    Longitude |-> <<"L","o","n","g","i","t","u","d","e">>,
    IceConcentration |-> <<"I","c","e"," ","C","o","n","c","e","n","t","r","a","t","i","o","n"," ","(","%",")">>,
    OpenWaterType |-> <<"O","p","e","n"," ","W","a","t","e","r"," ","T","y","p","e">>,
    AirTemp |-> <<"A","i","r"," ","T","e","m","p"," ","(","°","C",")">>,
    WaterTemp |-> <<"W","a","t","e","r"," ","T","e","m","p"," ","(","°","C",")">>,
    WindSpeed |-> <<"W","i","n","d"," ","S","p","e","e","d"," ","(","m","/","s",")">>,
    WindDirection |-> <<"W","i","n","d"," ","D","i","r","e","c","t","i","o","n"," ","(","°",")">>,
    CloudCover |-> <<"C","l","o","u","d"," ","C","o","v","e","r"," ","(","o","k","t","a","s",")">>,
    Visibility |-> <<"V","i","s","i","b","i","l","i","t","y">>,
    Weather |-> <<"W","e","a","t","h","e","r">>,
    Observer |-> <<"O","b","s","e","r","v","e","r">>,
    Comments |-> <<"C","o","m","m","e","n","t","s">> ]

\* row[key]?.trim(), with '' for undefined: the code only tests it for
\* being empty
CsvCell(row, key) == IF key \in DOMAIN row THEN Trim(row[key]) ELSE <<>>

\* parseFloat of a cell that is not empty, null for an empty cell or NaN
CsvNumber(row, key) == NumberOrNull(CsvCell(row, key))

\* a range test that takes every number
CsvAnyNumber(n, lo, hi) == n # Null

\* n !== null && n >= lo && n <= hi  (n is !isNaN(parseFloat(cell)) or null)
CsvInRange(n, lo, hi) == n # Null /\ Within(n, lo, hi)

\* the optional numeric cells of parseObservationRow, added to observation o
CsvNumbers(row, o) ==
  LET num(k) == CsvNumber(row, k)
      o1  == SetIf(CsvInRange(num(H.IceConcentration), 0, 100),
                   "total_ice_concentration", num(H.IceConcentration), o)
      o2  == SetNum("air_temp", num(H.AirTemp), o1)
      o3  == SetNum("water_temp", num(H.WaterTemp), o2)
      o4  == SetIf(num(H.WindSpeed) # Null /\ AtLeast(num(H.WindSpeed), 0),
                   "wind_speed", num(H.WindSpeed), o3)
      o5  == SetIf(CsvInRange(num(H.WindDirection), 0, 360),
                   "wind_direction", num(H.WindDirection), o4)
  IN  SetIf(CsvInRange(num(H.CloudCover), 0, 8),
            "cloud_cover", num(H.CloudCover), o5)

\* the optional text cells of parseObservationRow, added to observation o
CsvTexts(row, o) ==
  LET o1 == SetText("open_water_type", CsvCell(row, H.OpenWaterType), o)
      o2 == SetText("visibility", CsvCell(row, H.Visibility), o1)
      o3 == SetText("weather", CsvCell(row, H.Weather), o2)
      o4 == SetText("observer", CsvCell(row, H.Observer), o3)
  IN  SetText("comments", CsvCell(row, H.Comments), o4)

\* parseObservationRow from `new Date(dateTime)` on
CsvChecked(row, dateTime, latitude, longitude, entryDate, lat, lon) ==
  IF ~entryDate.valid THEN Thrown("Invalid date format", dateTime)
  ELSE IF IsNaN(lat) \/ LessThan(lat, -90) \/ GreaterThan(lat, 90)
  THEN Thrown("Invalid latitude", latitude)
  ELSE IF IsNaN(lon) \/ LessThan(lon, -180) \/ GreaterThan(lon, 180)
  THEN Thrown("Invalid longitude", longitude)
  ELSE Accepted(CsvTexts(row, CsvNumbers(row,
                  [entry_datetime |-> entryDate, latitude |-> lat, longitude |-> lon,
                   syncStatus |-> SyncLocal, localChanges |-> 1])))

\* parseObservationRow once the three required cells are read
CsvRequired(row, dateTime, latitude, longitude) ==
  IF dateTime = <<>> THEN Thrown("Date/Time is required", <<>>)
  ELSE IF latitude = <<>> THEN Thrown("Latitude is required", <<>>)
  ELSE IF longitude = <<>> THEN Thrown("Longitude is required", <<>>)
  ELSE CsvChecked(row, dateTime, latitude, longitude, ParseDate(dateTime),
                  ParseFloat(latitude), ParseFloat(longitude))

ParseObservationRow(row) ==
  CsvRequired(row, CsvCell(row, H.DateTime), CsvCell(row, H.Latitude),
              CsvCell(row, H.Longitude))

\* the row number parseObservationsCsv writes into a row error
CsvErrorRow(index) == index + 2

\* result.errors after Papa.parse: Papa's errors, each as `Row ${err.row}: ...`
CsvParseErrors(p) ==
  [e \in 1..Len(p.errors) |-> ErrorEntry(p.errors[e].row, p.errors[e].message, <<>>)]

\* try { observations.push(parseObservationRow(row)) } catch { errors.push(..) }
PushCsvRow(res, r, index) ==
  IF r.ok THEN [res EXCEPT !.observations = Append(@, r.obs)]
  ELSE [res EXCEPT !.errors = Append(@, ErrorEntry(CsvErrorRow(index), r.msg, r.arg))]

\* the forEach callback of parseObservationsCsv on row `index` (0-based)
CsvRow(res, row, index) == PushCsvRow(res, ParseObservationRow(row), index)

\* result after the first n rows of p.data
RECURSIVE CsvScan(_, _)
CsvScan(p, n) ==
  IF n = 0 THEN [EmptyResult EXCEPT !.errors = CsvParseErrors(p)]
  ELSE CsvRow(CsvScan(p, n - 1), p.data[n], n - 1)

CsvDecoded(p) == Finished(CsvScan(p, Len(p.data)))

\* parseObservationsCsv(csvContent), csvContent given as its lines
ParseObservationsCsv(ls) == CsvDecoded(PapaParse(ls))

(***************************************************************************)
(* exportToCsv and exportToAspect.  A record and a cruise are functions    *)
(* from their keys; a key that is not in the domain is undefined.  The     *)
(* dates of the records exported are local times, which date-fns' format   *)
(* prints as they are.                                                     *)
(***************************************************************************)
\* String(n) for a natural number n
RECURSIVE NatToString(_)
NatToString(n) ==
  IF n < 10 THEN <<Digits[n + 1]>> ELSE NatToString(n \div 10) \o <<Digits[(n % 10) + 1]>>

\* n in w digits, zeros in front
Pad(n, w) == [i \in 1..(w - Len(NatToString(n))) |-> "0"] \o NatToString(n)

\* the digits after the point of a number that is no integer, without the
\* zeros at their end
Fraction(digits) == SubSeq(digits, 1, Greatest({i \in 1..Len(digits) : digits[i] # "0"}))

Magnitude(v) == IF v < 0 THEN 0 - v ELSE v

\* `${n}` for a number n
NumberToString(n) ==
  IF n.k = "nan" THEN <<"N","a","N">>
  ELSE IF n.k = "inf" THEN (IF n.v < 0 THEN <<"-">> ELSE <<>>) \o S_Infinity
  ELSE (IF n.v < 0 THEN <<"-">> ELSE <<>>)
         \o NatToString(Magnitude(n.v) \div Scale)
         \o (IF Magnitude(n.v) % Scale = 0 THEN <<>>
             ELSE <<".">> \o Fraction(Pad(Magnitude(n.v) % Scale, 4)))

\* n.toFixed(6)
ToFixed6(n) ==
  IF n.k # "num" THEN NumberToString(n)
  ELSE (IF n.v < 0 THEN <<"-">> ELSE <<>>)
         \o NatToString(Magnitude(n.v) \div Scale)
         \o <<".">> \o Pad(Magnitude(n.v) % Scale, 4) \o <<"0", "0">>

\* format(date, 'yyyy-MM-dd')
FormatDay(d) == Pad(d.t[1], 4) \o <<"-">> \o Pad(d.t[2], 2) \o <<"-">> \o Pad(d.t[3], 2)

\* format(date, 'yyyy-MM-dd HH:mm:ss')
FormatDateTime(d) ==
  FormatDay(d) \o <<" ">> \o Pad(d.t[4], 2) \o <<":">> \o Pad(d.t[5], 2)
    \o <<":">> \o Pad(d.t[6], 2)

\* arr.join(sep)
RECURSIVE JoinFirst(_, _, _)
JoinFirst(arr, sep, n) ==
  IF n = 0 THEN <<>>
  ELSE IF n = 1 THEN arr[1]
  ELSE JoinFirst(arr, sep, n - 1) \o sep \o arr[n]

Join(arr, sep) == JoinFirst(arr, sep, Len(arr))

\* `${obs.field ?? ''}` for a number field
NumCell(obs, field) == IF field \in DOMAIN obs THEN NumberToString(obs[field]) ELSE <<>>

\* `${obs.field ?? ''}` for a text field
TextCell(obs, field) == IF field \in DOMAIN obs THEN obs[field] ELSE <<>>

\* s.replace(/[\n\r]/g, ' ')
NoLineBreaks(s) == [i \in 1..Len(s) |-> IF s[i] \in {"\n", "\r"} THEN " " ELSE s[i]]

\* the five cells of obs.<slot>?.<attribute> ?? ''
IceCells(obs, slot) ==
  IF slot \in DOMAIN obs
  THEN <<NumberToString(obs[slot].ice_concentration), obs[slot].ice_type,
         obs[slot].ice_thickness, obs[slot].floe_size, obs[slot].topography>>
  ELSE <<<<>>, <<>>, <<>>, <<>>, <<>>>>

ExportHeaders ==
  << <<"C","r","u","i","s","e"," ","N","a","m","e">>,
     <<"D","a","t","e","/","T","i","m","e">>,
     <<"L","a","t","i","t","u","d","e">>,
     <<"L","o","n","g","i","t","u","d","e">>,
     <<"I","c","e"," ","C","o","n","c","e","n","t","r","a","t","i","o","n"," ","(","%",")">>,
     <<"O","p","e","n"," ","W","a","t","e","r"," ","T","y","p","e">>,
     <<"P","r","i","m","a","r","y"," ","I","c","e"," ","C","o","n","c">>,
     <<"P","r","i","m","a","r","y"," ","I","c","e"," ","T","y","p","e">>,
     <<"P","r","i","m","a","r","y"," ","I","c","e"," ","T","h","i","c","k","n","e","s","s">>,
     <<"P","r","i","m","a","r","y"," ","F","l","o","e"," ","S","i","z","e">>,
     <<"P","r","i","m","a","r","y"," ","T","o","p","o","g","r","a","p","h","y">>,
     <<"S","e","c","o","n","d","a","r","y"," ","I","c","e"," ","C","o","n","c">>,
     <<"S","e","c","o","n","d","a","r","y"," ","I","c","e"," ","T","y","p","e">>,
     <<"S","e","c","o","n","d","a","r","y"," ","I","c","e"," ","T","h","i","c","k","n","e","s","s">>,
     <<"S","e","c","o","n","d","a","r","y"," ","F","l","o","e"," ","S","i","z","e">>,
     <<"S","e","c","o","n","d","a","r","y"," ","T","o","p","o","g","r","a","p","h","y">>,
     <<"T","e","r","t","i","a","r","y"," ","I","c","e"," ","C","o","n","c">>,
     <<"T","e","r","t","i","a","r","y"," ","I","c","e"," ","T","y","p","e">>,
     <<"T","e","r","t","i","a","r","y"," ","I","c","e"," ","T","h","i","c","k","n","e","s","s">>,
     <<"T","e","r","t","i","a","r","y"," ","F","l","o","e"," ","S","i","z","e">>,
     <<"T","e","r","t","i","a","r","y"," ","T","o","p","o","g","r","a","p","h","y">>,
     <<"A","i","r"," ","T","e","m","p"," ","(","°","C",")">>,
     <<"W","a","t","e","r"," ","T","e","m","p"," ","(","°","C",")">>,
     <<"W","i","n","d"," ","S","p","e","e","d"," ","(","m","/","s",")">>,
     <<"W","i","n","d"," ","D","i","r","e","c","t","i","o","n"," ","(","°",")">>,
     <<"C","l","o","u","d"," ","C","o","v","e","r"," ","(","o","k","t","a","s",")">>,
     <<"V","i","s","i","b","i","l","i","t","y">>,
     <<"W","e","a","t","h","e","r">>,
     <<"O","b","s","e","r","v","e","r">>,
     <<"C","o","m","m","e","n","t","s">> >>

\* the array of cells exportToCsv makes of one observation
ExportRow(cruise, obs) ==
  <<cruise.name, FormatDateTime(obs.entry_datetime), ToFixed6(obs.latitude),
    ToFixed6(obs.longitude), NumCell(obs, "total_ice_concentration"),
    TextCell(obs, "open_water_type")>>
    \o IceCells(obs, "primary_ice") \o IceCells(obs, "secondary_ice")
    \o IceCells(obs, "tertiary_ice")
    \o <<NumCell(obs, "air_temp"), NumCell(obs, "water_temp"), NumCell(obs, "wind_speed"),
         NumCell(obs, "wind_direction"), NumCell(obs, "cloud_cover"),
         TextCell(obs, "visibility"), TextCell(obs, "weather"), TextCell(obs, "observer"),
         NoLineBreaks(TextCell(obs, "comments"))>>

\* `"${cell}"`
Quoted(cell) == <<"\"">> \o cell \o <<"\"">>

\* row.map(cell => `"${cell}"`).join(',')
ExportLine(row) == Join([j \in 1..Len(row) |-> Quoted(row[j])], <<",">>)

\* exportToCsv(cruise, observations)
ExportToCsv(cruise, observations) ==
  Join(<<Join(ExportHeaders, <<",">>)>>
         \o [i \in 1..Len(observations) |-> ExportLine(ExportRow(cruise, observations[i]))],
       <<"\n">>)

\* 'N/A'
NotAvailable == <<"N","/","A">>

\* value || 'N/A'
OrNotAvailable(v) == IF v # <<>> THEN v ELSE NotAvailable

\* an ice line that leaves a blank attribute blank
IceLineBare(label, ice) ==
  label \o <<":", " ">> \o NumberToString(ice.ice_concentration) \o <<"/", "1", "0">>
    \o <<" ", "-", " ">> \o ice.ice_type
    \o <<" ", "-", " ">> \o ice.ice_thickness
    \o <<" ", "-", " ">> \o ice.floe_size
    \o <<" ", "-", " ">> \o ice.topography

\* the line of an ice category: `${label}: ${conc}/10 - ${type || 'N/A'} - ...`
IceLine(label, ice) ==
  label \o <<":", " ">> \o NumberToString(ice.ice_concentration) \o <<"/", "1", "0">>
    \o <<" ", "-", " ">> \o OrNotAvailable(ice.ice_type)
    \o <<" ", "-", " ">> \o OrNotAvailable(ice.ice_thickness)
    \o <<" ", "-", " ">> \o OrNotAvailable(ice.floe_size)
    \o <<" ", "-", " ">> \o OrNotAvailable(ice.topography)

\* the fixed texts of exportToAspect
Label ==
  [ Title |-> <<"A","S","P","E","C","T"," ","S","e","a"," ","I","c","e"," ","O","b","s","e","r","v","a","t","i","o","n"," ","D","a","t","a">>,
    Cruise |-> <<"C","r","u","i","s","e",":"," ">>,
    Leader |-> <<"L","e","a","d","e","r",":"," ">>,
    Vessel |-> <<"V","e","s","s","e","l",":"," ">>,
    Period |-> <<"P","e","r","i","o","d",":"," ">>,
    To |-> <<" ","t","o"," ">>,
    Section |-> <<"-","-","-"," ","O","b","s","e","r","v","a","t","i","o","n","s"," ","-","-","-">>,
    Observation |-> <<"O","b","s","e","r","v","a","t","i","o","n"," ">>,
    DateTime |-> <<"D","a","t","e","/","T","i","m","e",":"," ">>,
    Position |-> <<"P","o","s","i","t","i","o","n",":"," ">>,
    TotalIce |-> <<"T","o","t","a","l"," ","I","c","e"," ","C","o","n","c","e","n","t","r","a","t","i","o","n",":"," ">>,
    Primary |-> <<"P","r","i","m","a","r","y"," ","I","c","e">>,
    Secondary |-> <<"S","e","c","o","n","d","a","r","y"," ","I","c","e">>,
    Tertiary |-> <<"T","e","r","t","i","a","r","y"," ","I","c","e">>,
    AirTemp |-> <<"A","i","r"," ","T","e","m","p","e","r","a","t","u","r","e",":"," ">>,
    WaterTemp |-> <<"W","a","t","e","r"," ","T","e","m","p","e","r","a","t","u","r","e",":"," ">>,
    Wind |-> <<"W","i","n","d",":"," ">>,
    MetresPerSecond |-> <<" ","m","/","s">>,
    From |-> <<" ","f","r","o","m"," ">>,
    Weather |-> <<"W","e","a","t","h","e","r",":"," ">>,
    Observer |-> <<"O","b","s","e","r","v","e","r",":"," ">>,
    Comments |-> <<"C","o","m","m","e","n","t","s",":"," ">> ]

\* lat >= 0 ? 'N' : 'S', and the like
Hemisphere(n, positive, negative) == IF AtLeast(n, 0) THEN positive ELSE negative

\* Math.abs(n)
Abs(n) == IF n.k = "nan" THEN n ELSE [n EXCEPT !.v = Magnitude(n.v)]

\* the Position line
PositionLine(obs) ==
  Label.Position \o ToFixed6(obs.latitude) \o <<"°", " ">>
    \o Hemisphere(obs.latitude, <<"N">>, <<"S">>) \o <<",", " ">>
    \o ToFixed6(Abs(obs.longitude)) \o <<"°", " ">>
    \o Hemisphere(obs.longitude, <<"E">>, <<"W">>)

\* if (cond) lines.push(line)
LineIf(cond, line) == IF cond THEN <<line>> ELSE <<>>

\* the line of the category in `slot`, if the record has it
IceLineOf(obs, slot, label) ==
  IF slot \in DOMAIN obs THEN <<IceLine(label, obs[slot])>> ELSE <<>>

\* obs.wind_direction ? ` from ${obs.wind_direction}°` : ''
WindFrom(obs) ==
  IF "wind_direction" \in DOMAIN obs /\ obs.wind_direction.k # "nan"
     /\ obs.wind_direction.v # 0
  THEN Label.From \o NumberToString(obs.wind_direction) \o <<"°">>
  ELSE <<>>

\* the text lines of a truthy text field
TextLine(obs, field, label) ==
  IF field \in DOMAIN obs /\ obs[field] # <<>> THEN <<label \o obs[field]>> ELSE <<>>

\* the lines the forEach callback of exportToAspect pushes for observation
\* `index` (0-based)
AspectBlock(obs, index) ==
  <<Label.Observation \o NatToString(index + 1),
    Label.DateTime \o FormatDateTime(obs.entry_datetime),
    PositionLine(obs)>>
    \o LineIf("total_ice_concentration" \in DOMAIN obs,
              Label.TotalIce \o NumCell(obs, "total_ice_concentration") \o <<"%">>)
    \o IceLineOf(obs, "primary_ice", Label.Primary)
    \o IceLineOf(obs, "secondary_ice", Label.Secondary)
    \o IceLineOf(obs, "tertiary_ice", Label.Tertiary)
    \o LineIf("air_temp" \in DOMAIN obs, Label.AirTemp \o NumCell(obs, "air_temp") \o <<"°", "C">>)
    \o LineIf("water_temp" \in DOMAIN obs,
              Label.WaterTemp \o NumCell(obs, "water_temp") \o <<"°", "C">>)
    \o LineIf("wind_speed" \in DOMAIN obs,
              Label.Wind \o NumCell(obs, "wind_speed") \o Label.MetresPerSecond \o WindFrom(obs))
    \o TextLine(obs, "weather", Label.Weather)
    \o TextLine(obs, "observer", Label.Observer)
    \o TextLine(obs, "comments", Label.Comments)
    \o <<<<>>>>

\* the lines exportToAspect pushes before the observations
AspectReportHead(cruise) ==
  <<Label.Title,
    Label.Cruise \o cruise.name,
    Label.Leader \o cruise.voyage_leader,
    Label.Vessel \o (IF "voyage_vessel" \in DOMAIN cruise
                     THEN OrNotAvailable(cruise.voyage_vessel) ELSE NotAvailable),
    Label.Period \o FormatDay(cruise.start_date) \o Label.To \o FormatDay(cruise.end_date),
    <<>>,
    Label.Section,
    <<>>>>

\* the lines pushed for the first n observations
RECURSIVE AspectBlocks(_, _)
AspectBlocks(observations, n) ==
  IF n = 0 THEN <<>>
  ELSE AspectBlocks(observations, n - 1) \o AspectBlock(observations[n], n - 1)

\* exportToAspect(cruise, observations)
ExportToAspect(cruise, observations) ==
  Join(AspectReportHead(cruise) \o AspectBlocks(observations, Len(observations)), <<"\n">>)

(***************************************************************************)
(* detectFileFormat.  The content is given as its lines; the marker holds  *)
(* no line feed, so the content includes it when one of its lines does.    *)
(***************************************************************************)
UpperCase ==
  <<"A","B","C","D","E","F","G","H","I","J","K","L","M",
    "N","O","P","Q","R","S","T","U","V","W","X","Y","Z">>

LowerCase ==
  <<"a","b","c","d","e","f","g","h","i","j","k","l","m",
    "n","o","p","q","r","s","t","u","v","w","x","y","z">>

\* [A-Za-z]
IsLetter(c) == \E i \in 1..Len(UpperCase) : c = UpperCase[i] \/ c = LowerCase[i]

\* s.toLowerCase(), for the letters A to Z
ToLowerCase(s) ==
  [i \in 1..Len(s) |->
     IF \E k \in 1..Len(UpperCase) : UpperCase[k] = s[i]
     THEN LowerCase[CHOOSE k \in 1..Len(UpperCase) : UpperCase[k] = s[i]]
     ELSE s[i]]

\* /^\d{8}[A-Za-z]{2}\d+$/.test(name)
VoyageFileName(name) ==
  /\ Len(name) >= 11
  /\ \A i \in 1..8 : IsDigit(name[i])
  /\ \A i \in 9..10 : IsLetter(name[i])
  /\ \A i \in 11..Len(name) : IsDigit(name[i])

DotCsv == <<".","c","s","v">>

\* content.includes(p), for a p without a line feed
ContentIncludes(ls, p) == \E i \in 1..Len(ls) : Includes(ls[i], p)

\* a detector that looks at the content before the extension
DetectContentFirst(name, ls) ==
  IF VoyageFileName(name) THEN "aspect"
  ELSE IF ContentIncludes(ls, Marker) THEN "aspect"
  ELSE "csv"

\* detectFileFormat(filename, content)
DetectFileFormat(name, ls) ==
  IF VoyageFileName(name) THEN "aspect"
  ELSE IF EndsWith(ToLowerCase(name), DotCsv) THEN "csv"
  ELSE IF ContentIncludes(ls, Marker) THEN "aspect"
  ELSE "csv"

(***************************************************************************)
(* The inputs: file contents, as lines.                                    *)
(***************************************************************************)
Blank == <<>>

\* a line of white space only
Spaces == <<" ", " ">>

SeqsUpTo(S, n) == UNION {[1..k -> S] : k \in 0..n}

\* {"name":"JR26","note":"x"}
MetaGood == <<"{","\"","n","a","m","e","\"",":","\"","J","R","2","6","\"",",","\"","n","o","t","e","\"",":","\"","x","\"","}">>

\* {"name":"JR26"
MetaBad == <<"{","\"","n","a","m","e","\"",":","\"","J","R","2","6","\"">>

\* IceBox export
JunkLine == <<"I","c","e","B","o","x"," ","e","x","p","o","r","t">>

\* see ---OBSERVATIONS--- below
MarkerInText == <<"s","e","e"," ","-","-","-","O","B","S","E","R","V","A","T","I","O","N","S","-","-","-"," ","b","e","l","o","w">>

\* date;time;latitude;longitude;wind_speed;wind_direction;cloud_cover;ice_observations.1.ice_concentration;ice_observations.1.ice_type;ice_observations.2.ice_type
HeaderFull == <<"d","a","t","e",";","t","i","m","e",";","l","a","t","i","t","u","d","e",";","l","o","n","g","i","t","u","d","e",";","w","i","n","d","_","s","p","e","e","d",";","w","i","n","d","_","d","i","r","e","c","t","i","o","n",";","c","l","o","u","d","_","c","o","v","e","r",";","i","c","e","_","o","b","s","e","r","v","a","t","i","o","n","s",".","1",".","i","c","e","_","c","o","n","c","e","n","t","r","a","t","i","o","n",";","i","c","e","_","o","b","s","e","r","v","a","t","i","o","n","s",".","1",".","i","c","e","_","t","y","p","e",";","i","c","e","_","o","b","s","e","r","v","a","t","i","o","n","s",".","2",".","i","c","e","_","t","y","p","e">>

\* longitude;latitude;date
HeaderMin == <<"l","o","n","g","i","t","u","d","e",";","l","a","t","i","t","u","d","e",";","d","a","t","e">>

\* 2026-01-01;10:00:00;-65.5;-64.25;12.5;180;4;5;20;
RowGoodA == <<"2","0","2","6","-","0","1","-","0","1",";","1","0",":","0","0",":","0","0",";","-","6","5",".","5",";","-","6","4",".","2","5",";","1","2",".","5",";","1","8","0",";","4",";","5",";","2","0",";">>

\* 2026-01-02;;-66;-65\r
RowGoodB == <<"2","0","2","6","-","0","1","-","0","2",";",";","-","6","6",";","-","6","5","\r">>

\* 2026-01-03;10:00:00;;-64.25
RowNoLat == <<"2","0","2","6","-","0","1","-","0","3",";","1","0",":","0","0",":","0","0",";",";","-","6","4",".","2","5">>

\* 2026-13-01;10:00:00;-65.5;-64.25
RowBadDate == <<"2","0","2","6","-","1","3","-","0","1",";","1","0",":","0","0",":","0","0",";","-","6","5",".","5",";","-","6","4",".","2","5">>

\* 2026-01-04;10:00:00;-65.5;181
RowLonOut == <<"2","0","2","6","-","0","1","-","0","4",";","1","0",":","0","0",":","0","0",";","-","6","5",".","5",";","1","8","1">>

\* 2026-01-05;10:00:00;-65.5;-64.25;12.5;400;4
RowWindDir400 == <<"2","0","2","6","-","0","1","-","0","5",";","1","0",":","0","0",":","0","0",";","-","6","5",".","5",";","-","6","4",".","2","5",";","1","2",".","5",";","4","0","0",";","4">>

\* 2026-01-06;10:00:00;-65.5;-64.25;-1;360;9
RowWeatherOut == <<"2","0","2","6","-","0","1","-","0","6",";","1","0",":","0","0",":","0","0",";","-","6","5",".","5",";","-","6","4",".","2","5",";","-","1",";","3","6","0",";","9">>

\* 2026-01-07;10:00:00;-65.5;-64.25;;;;11;;
RowIce11 == <<"2","0","2","6","-","0","1","-","0","7",";","1","0",":","0","0",":","0","0",";","-","6","5",".","5",";","-","6","4",".","2","5",";",";",";",";","1","1",";",";">>

\* 2026-01-08;10:00:00;-65.5;-64.25;;;;n/a;;30
RowIceText == <<"2","0","2","6","-","0","1","-","0","8",";","1","0",":","0","0",":","0","0",";","-","6","5",".","5",";","-","6","4",".","2","5",";",";",";",";","n","/","a",";",";","3","0">>

\* 2026-01-09;10:00:00;-65.5;-64.25;;;;;10;
RowIceType == <<"2","0","2","6","-","0","1","-","0","9",";","1","0",":","0","0",":","0","0",";","-","6","5",".","5",";","-","6","4",".","2","5",";",";",";",";",";","1","0",";">>

\* -64.25;-65.5;2026-01-10
RowMinGood == <<"-","6","4",".","2","5",";","-","6","5",".","5",";","2","0","2","6","-","0","1","-","1","0">>

\* what precedes the data lines of a domain-format file
AspectPrefixes ==
  { <<Marker, HeaderFull>>,
    <<MetaGood, Marker, HeaderFull>>,
    <<MetaBad, Marker, HeaderFull>>,
    <<Blank, MetaGood, Marker, HeaderFull>>,
    <<JunkLine, Marker, Blank, HeaderFull>>,
    <<MetaGood, HeaderFull>>,
    <<MetaGood, MarkerInText, HeaderFull>>,
    <<Marker, HeaderMin>>,
    <<Marker, Marker, HeaderMin>>,
    <<MetaBad, Spaces, Marker, HeaderMin>> }

\* 2026-01-11;10:00:00;-65.5;-64.25;;;;5;;
RowIce5 == <<"2","0","2","6","-","0","1","-","1","1",";","1","0",":","0","0",":","0","0",";","-","6","5",".","5",";","-","6","4",".","2","5",";",";",";",";","5",";",";">>

AspectStructRows == {RowGoodA, RowNoLat, RowMinGood, Blank, Marker}

AspectRows ==
  {RowGoodA, RowGoodB, RowNoLat, RowBadDate, RowLonOut, RowWindDir400, RowWeatherOut,
   RowIce11, RowIceText, RowIceType, RowIce5, Blank}

AspectFiles ==
  {p \o r : p \in AspectPrefixes, r \in SeqsUpTo(AspectStructRows, MaxRows)}
    \cup {<<MetaGood, Marker, HeaderFull>> \o r : r \in SeqsUpTo(AspectRows, MaxRows)}

\* Date/Time,Latitude,Longitude,Ice Concentration (%),Wind Speed (m/s),Wind Direction (°),Cloud Cover (oktas)
CsvHeader == <<"D","a","t","e","/","T","i","m","e",",","L","a","t","i","t","u","d","e",",","L","o","n","g","i","t","u","d","e",",","I","c","e"," ","C","o","n","c","e","n","t","r","a","t","i","o","n"," ","(","%",")",",","W","i","n","d"," ","S","p","e","e","d"," ","(","m","/","s",")",",","W","i","n","d"," ","D","i","r","e","c","t","i","o","n"," ","(","°",")",",","C","l","o","u","d"," ","C","o","v","e","r"," ","(","o","k","t","a","s",")">>

\*  Longitude ,Latitude,Date/Time
CsvHeaderMin == <<" ","L","o","n","g","i","t","u","d","e"," ",",","L","a","t","i","t","u","d","e",",","D","a","t","e","/","T","i","m","e">>

\* "2025-12-18 10:00:00","-65.5000","-64.2500","75","12.5","180","4"
CsvGoodA == <<"\"","2","0","2","5","-","1","2","-","1","8"," ","1","0",":","0","0",":","0","0","\"",",","\"","-","6","5",".","5","0","0","0","\"",",","\"","-","6","4",".","2","5","0","0","\"",",","\"","7","5","\"",",","\"","1","2",".","5","\"",",","\"","1","8","0","\"",",","\"","4","\"">>

\* 2025-12-19,-66,-65,,,,
CsvGoodB == <<"2","0","2","5","-","1","2","-","1","9",",","-","6","6",",","-","6","5",",",",",",",",">>

\* ,-65.5,-64.25,75,12.5,180,4
CsvNoDate == <<",","-","6","5",".","5",",","-","6","4",".","2","5",",","7","5",",","1","2",".","5",",","1","8","0",",","4">>

\* 2025-12-20, ,-64.25,75,12.5,180,4
CsvBlankLat == <<"2","0","2","5","-","1","2","-","2","0",","," ",",","-","6","4",".","2","5",",","7","5",",","1","2",".","5",",","1","8","0",",","4">>

\* 2025-12-21,-65.5
CsvShort == <<"2","0","2","5","-","1","2","-","2","1",",","-","6","5",".","5">>

\* yesterday,-65.5,-64.25,,,,
CsvBadDate == <<"y","e","s","t","e","r","d","a","y",",","-","6","5",".","5",",","-","6","4",".","2","5",",",",",",",",">>

\* 2025-12-22,-95,-64.25,,,,
CsvLatOut == <<"2","0","2","5","-","1","2","-","2","2",",","-","9","5",",","-","6","4",".","2","5",",",",",",",",">>

\* 2025-12-23,-65.5,-64.25,75,12.5,400,4
CsvWindDir400 == <<"2","0","2","5","-","1","2","-","2","3",",","-","6","5",".","5",",","-","6","4",".","2","5",",","7","5",",","1","2",".","5",",","4","0","0",",","4">>

\* 2025-12-24,-65.5,-64.25,101,12.5,180,4
CsvIce101 == <<"2","0","2","5","-","1","2","-","2","4",",","-","6","5",".","5",",","-","6","4",".","2","5",",","1","0","1",",","1","2",".","5",",","1","8","0",",","4">>

\* 2025-12-25,-65.5,-64.25,75,-1,360,9
CsvWeatherOut == <<"2","0","2","5","-","1","2","-","2","5",",","-","6","5",".","5",",","-","6","4",".","2","5",",","7","5",",","-","1",",","3","6","0",",","9">>

\* -64.25,-65.5,2025-12-26
CsvMinGood == <<"-","6","4",".","2","5",",","-","6","5",".","5",",","2","0","2","5","-","1","2","-","2","6">>

CsvPrefixes == {<<CsvHeader>>, <<Blank, CsvHeader>>, <<CsvHeaderMin>>}

CsvStructRows == {CsvGoodA, CsvNoDate, CsvShort, CsvMinGood, Blank, Spaces}

CsvRows ==
  {CsvGoodA, CsvGoodB, CsvNoDate, CsvBlankLat, CsvShort, CsvBadDate, CsvLatOut,
   CsvWindDir400, CsvIce101, CsvWeatherOut, Blank}

CsvFiles ==
  {p \o r : p \in CsvPrefixes, r \in SeqsUpTo(CsvStructRows, MaxRows)}
    \cup {<<CsvHeader>> \o r : r \in SeqsUpTo(CsvRows, MaxRows)}

(***************************************************************************)
(* The Import page and the store.  The page state is the record `page` of  *)
(* its useState values; an observation of the store is known by its uuid,  *)
(* which is the number of the write that created it.                       *)
(***************************************************************************)
\* format === 'aspect' ? parseAspectTextFile(content) : parseObservationsCsv(content)
Decode(f) ==
  IF DetectFileFormat(f.name, f.lines) = "aspect" THEN ParseAspectTextFile(f.lines)
  ELSE ParseObservationsCsv(f.lines)

NameKey == <<"n","a","m","e">>

\* parseResult.cruiseMeta?.name, '' when there is none
MetaName(r) ==
  IF r.cruiseMeta # <<>> /\ NameKey \in DOMAIN r.cruiseMeta[1] THEN r.cruiseMeta[1][NameKey]
  ELSE <<>>

\* the cruises whose name is `name` but for letter case and white space around
Matches(cruises, name) ==
  {i \in 1..Len(cruises) : ToLowerCase(Trim(cruises[i].name)) = ToLowerCase(Trim(name))}

\* cruiseId after tryAutoSelectCruise(parseResult)
TryAutoSelectCruise(cruises, r, cruiseId) ==
  IF MetaName(r) = <<>> \/ Matches(cruises, MetaName(r)) = {} THEN cruiseId
  ELSE cruises[Least(Matches(cruises, MetaName(r)))].uuid

\* an Import button that only asks what handleImport asks
ImportUnchecked(pg) ==
  /\ pg.file # <<>>
  /\ pg.cruiseId # ""
  /\ pg.result # <<>>
  /\ ~pg.importing

\* the Import button is shown and not disabled
ImportEnabled(pg) ==
  /\ pg.file # <<>>
  /\ pg.cruiseId # ""
  /\ pg.result # <<>>
  /\ pg.result[1].errors = <<>>
  /\ ~pg.importing

\* the object observationAPI.create adds: {...obs, cruise: cruiseId, uuid}
Created(obs, cruiseId, uuid) == ("cruise" :> cruiseId @@ "uuid" :> uuid) @@ obs

\* the number of the last import that was started
Imports(w) == IF w = <<>> THEN 0 ELSE w[Len(w)].import

\* the writes result.observations.map(...) starts, after the writes w:
\* errors is the number of errors of the result they come from
Started(w, r, cruiseId) ==
  [k \in 1..Len(r.observations) |->
     [observation |-> Created(r.observations[k], cruiseId, Len(w) + k),
      state |-> "pending", import |-> Imports(w) + 1, errors |-> Len(r.errors)]]

\* the writes of import n
WritesOf(w, n) == {k \in 1..Len(w) : w[k].import = n}

\* Promise.all of import n is fulfilled by the writes w
AllAdded(w, n) == \A k \in WritesOf(w, n) : w[k].state = "added"

\* Promise.all of import n is rejected by the writes w
Rejected(w, n) == \E k \in WritesOf(w, n) : w[k].state = "failed"

\* the page after Promise.all is fulfilled: finally, and navigate
Navigated(pg) == [pg EXCEPT !.importing = FALSE, !.left = TRUE]

\* the page after Promise.all is rejected: catch and finally
Caught(pg) == [pg EXCEPT !.importing = FALSE]

(***************************************************************************)
(* The file names and contents the detector is run on.                     *)
(***************************************************************************)
\* 20260101SD056
NameVoyage == <<"2","0","2","6","0","1","0","1","S","D","0","5","6">>

\* 20260101sd1
NameVoyageLower == <<"2","0","2","6","0","1","0","1","s","d","1">>

\* 20260101SD
NameNoNumber == <<"2","0","2","6","0","1","0","1","S","D">>

\* 2026010SD056
NameShortDate == <<"2","0","2","6","0","1","0","S","D","0","5","6">>

\* 20260101S1056
NameOneLetter == <<"2","0","2","6","0","1","0","1","S","1","0","5","6">>

\* x20260101SD056
NameLeading == <<"x","2","0","2","6","0","1","0","1","S","D","0","5","6">>

\* 20260101SD056.csv
NameVoyageCsv == <<"2","0","2","6","0","1","0","1","S","D","0","5","6",".","c","s","v">>

\* 20260101SD056.txt
NameVoyageTxt == <<"2","0","2","6","0","1","0","1","S","D","0","5","6",".","t","x","t">>

\* data.csv
NameCsv == <<"d","a","t","a",".","c","s","v">>

\* DATA.CSV
NameCsvUpper == <<"D","A","T","A",".","C","S","V">>

\* notes.Csv
NameCsvMixed == <<"n","o","t","e","s",".","C","s","v">>

\* data.csv.bak
NameCsvBak == <<"d","a","t","a",".","c","s","v",".","b","a","k">>

\* notes.txt
NameTxt == <<"n","o","t","e","s",".","t","x","t">>

\* readme
NamePlain == <<"r","e","a","d","m","e">>

\* .csv
NameOnlyExt == <<".","c","s","v">>

\* the empty name
NameEmpty == <<>>

FileNames ==
  {NameVoyage, NameVoyageLower, NameNoNumber, NameShortDate,
   NameOneLetter, NameLeading, NameVoyageCsv, NameVoyageTxt,
   NameCsv, NameCsvUpper, NameCsvMixed, NameCsvBak,
   NameTxt, NamePlain, NameOnlyExt, NameEmpty}

DetectContents ==
  { <<Blank>>,
    <<JunkLine>>,
    <<MarkerInText>>,
    <<Marker, HeaderMin, RowMinGood>>,
    <<MetaGood, Marker, HeaderFull, RowGoodA>>,
    <<CsvHeader, CsvGoodA>>,
    <<CsvHeaderMin, CsvMinGood, Marker>> }
(***************************************************************************)
(* The cruises and records the exporters are run on.                       *)
(***************************************************************************)
\* 2026-01-11 10:00:00, local time
Stamp == DateOf(2026, 1, 11, <<10, 0, 0>>, FALSE)

Position(lat, lon) ==
  "entry_datetime" :> Stamp @@ "latitude" :> Num(lat) @@ "longitude" :> Num(lon)

\* only a timestamp and a position: -65.5, -64.25
RecMin == Position(0 - 655000, 0 - 642500)

\* 90, -180
RecPole == Position(900000, 0 - 1800000)

\* 0.0001, 179.9999
RecSmall == Position(1, 1799999)

IceFull ==
  [ice_concentration |-> Num(50000), ice_type |-> <<"2","0">>, ice_thickness |-> <<"3","0">>,
   floe_size |-> <<"4","0","0">>, topography |-> <<"1","0","0">>]

\* a category with a concentration and nothing else
IceBlank ==
  [ice_concentration |-> Num(50000), ice_type |-> <<>>, ice_thickness |-> <<>>,
   floe_size |-> <<>>, topography |-> <<>>]

\* every field, a line feed in the comments
RecFull ==
  Position(0 - 655000, 0 - 642500)
    @@ "total_ice_concentration" :> Num(750000) @@ "open_water_type" :> <<"2">>
    @@ "primary_ice" :> IceFull @@ "secondary_ice" :> IceBlank @@ "tertiary_ice" :> IceFull
    @@ "air_temp" :> Num(0 - 25000) @@ "water_temp" :> Num(0 - 18000)
    @@ "wind_speed" :> Num(125000) @@ "wind_direction" :> Num(1800000)
    @@ "cloud_cover" :> Num(40000) @@ "visibility" :> <<"9","0">>
    @@ "weather" :> <<"0","0">> @@ "observer" :> <<"A","B">>
    @@ "comments" :> <<"c","a","l","m","\n","c","l","e","a","r">>

\* a carriage return and a line feed in the comments
RecCrLf == Position(0 - 660000, 0 - 650000) @@ "comments" :> <<"a","\r","\n","b">>

\* a line feed in the observer
RecObserverBreak == Position(0 - 660000, 0 - 650000) @@ "observer" :> <<"A","\n","B">>

\* the observer x","y
RecObserverQuote == Position(0 - 660000, 0 - 650000) @@ "observer" :> <<"x","\"",",","\"","y">>

\* a category and texts that are blank, wind from 0
RecBlank ==
  Position(0 - 670000, 600000)
    @@ "primary_ice" :> IceBlank @@ "wind_speed" :> Num(30000) @@ "wind_direction" :> Num(0)
    @@ "weather" :> <<>> @@ "observer" :> <<>> @@ "comments" :> <<>>

ExportRecords ==
  {RecMin, RecPole, RecSmall, RecFull, RecCrLf, RecObserverBreak, RecObserverQuote, RecBlank}

Voyage(name, leader) ==
  "name" :> name @@ "voyage_leader" :> leader
    @@ "start_date" :> DateOf(2026, 1, 2, <<0, 0, 0>>, FALSE)
    @@ "end_date" :> DateOf(2026, 2, 20, <<0, 0, 0>>, FALSE)

CruiseJR == Voyage(<<"J","R","2","6">>, <<"A","."," ","L","e","a","d">>) @@ "voyage_vessel" :> <<"R","R","S"," ","X">>

\* the name A"B, no vessel
CruiseQuote == Voyage(<<"A","\"","B">>, <<"C","."," ","L","e","a","d">>)

\* the name R, V and a blank vessel
CruiseComma == Voyage(<<"R",","," ","V">>, <<"D","."," ","L","e","a","d">>) @@ "voyage_vessel" :> <<>>

ExportCruises == {CruiseJR, CruiseQuote, CruiseComma}

(***************************************************************************)
(* The files the Import page is given and the cruises it lists.            *)
(***************************************************************************)
\* two accepted rows, no errors, metadata with the name JR26
FileClean ==
  [name |-> NameVoyage, lines |-> <<MetaGood, Marker, HeaderFull, RowGoodA, RowGoodB>>]

\* one accepted row and one rejected row
FileDirty == [name |-> NameCsv, lines |-> <<CsvHeader, CsvGoodA, CsvNoDate>>]

PageFiles == {FileClean, FileDirty}

\* the cruises state of the page: the cruise c1, named " jr26"
PageCruises == <<[uuid |-> "c1", name |-> <<" ","j","r","2","6">>]>>

(***************************************************************************)
(* The decoders as state machines: one step per line (domain format) or    *)
(* per row (tabular format).                                               *)
(*   format        the decoder that runs                                   *)
(*   lines         content.split('\n')                                     *)
(*   pc            "lines": in lines.forEach; "parse": before Papa.parse;  *)
(*                 "rows": in parsed.data.forEach; "done": returned        *)
(*   lineIndex     the index the forEach callback is called with next      *)
(*   headerFields, inObservations, headerParsed, parsed, result            *)
(*                 the locals of the decoder                               *)
(*   outcome       the branch taken for each line or row so far            *)
(***************************************************************************)
VARIABLES format, lines, pc, lineIndex, headerFields, inObservations, headerParsed,
          parsed, result, outcome

\* filename: the name of the file detectFileFormat is called with
VARIABLES filename

\* cruise, records: the arguments of an exporter; text: what it returned
VARIABLES cruise, records, text

\* page: file, cruiseId, importing, result of the Import page, and left,
\*   TRUE once it has navigated away; reading: the files whose file.text()
\*   is pending; writes: the observationAPI.create calls so far; db: the
\*   uuids in the tables cruises and observations; deleting: the
\*   cruiseAPI.delete call
VARIABLES page, reading, writes, db, deleting

\* store: the records of the tables cruises and observations that the
\*   update calls change, each a function from its keys; calls: the update
\*   calls made so far, each with its table, uuid and updates
VARIABLES store, calls

exportVars == <<cruise, records, text>>

pageVars == <<page, reading, writes, db, deleting>>

storeVars == <<store, calls>>

decoderVars ==
  <<format, lines, pc, lineIndex, headerFields, inObservations, headerParsed,
    parsed, result, outcome>>

\* the variables the decoders do not touch
others == <<filename, exportVars, pageVars, storeVars>>

vars == <<decoderVars, others>>

\* no file name, as when a decoder is called on its own
ExportIdle == cruise = <<>> /\ records = <<>> /\ text = <<>>

PageIdle == page = <<>> /\ reading = {} /\ writes = <<>> /\ db = <<>> /\ deleting = <<>>

StoreIdle == store = <<>> /\ calls = <<>>

OthersIdle == filename = <<>> /\ ExportIdle /\ PageIdle /\ StoreIdle

NotParsed == [data |-> <<>>, errors |-> <<>>, lineNo |-> <<>>]

Locals ==
  /\ lineIndex = 0
  /\ headerFields = <<>>
  /\ inObservations = FALSE
  /\ headerParsed = FALSE
  /\ parsed = NotParsed
  /\ result = EmptyResult
  /\ outcome = <<>>

InitAspect ==
  /\ format = "aspect"
  /\ lines \in AspectFiles
  /\ pc = "lines"
  /\ Locals
  /\ OthersIdle

InitCsv ==
  /\ format = "csv"
  /\ lines \in CsvFiles
  /\ pc = "parse"
  /\ Locals
  /\ OthersIdle

Init == InitAspect \/ InitCsv

\* the locals of parseAspectTextFile, as AspectLine takes them
AspectState ==
  [headerFields |-> headerFields, inObservations |-> inObservations,
   headerParsed |-> headerParsed, result |-> result]

AspectLineStep ==
  /\ pc = "lines"
  /\ lineIndex < Len(lines)
  /\ \E next \in {AspectLine(AspectState, lines[lineIndex + 1], lineIndex)} :
       /\ headerFields' = next.headerFields
       /\ inObservations' = next.inObservations
       /\ headerParsed' = next.headerParsed
       /\ result' = next.result
  /\ outcome' = Append(outcome, AspectLineKind(AspectState, lines[lineIndex + 1], lineIndex))
  /\ lineIndex' = lineIndex + 1
  /\ UNCHANGED <<format, lines, pc, parsed>>
  /\ UNCHANGED others

AspectFinish ==
  /\ pc = "lines"
  /\ lineIndex = Len(lines)
  /\ result' = Finished(result)
  /\ pc' = "done"
  /\ UNCHANGED <<format, lines, lineIndex, headerFields, inObservations, headerParsed,
                 parsed, outcome>>
  /\ UNCHANGED others

CsvParse ==
  /\ pc = "parse"
  /\ parsed' = PapaParse(lines)
  /\ result' = [result EXCEPT !.errors = CsvParseErrors(parsed')]
  /\ pc' = "rows"
  /\ UNCHANGED <<format, lines, lineIndex, headerFields, inObservations, headerParsed,
                 outcome>>
  /\ UNCHANGED others

CsvRowStep ==
  /\ pc = "rows"
  /\ lineIndex < Len(parsed.data)
  /\ result' = CsvRow(result, parsed.data[lineIndex + 1], lineIndex)
  /\ outcome' = Append(outcome,
                       IF ParseObservationRow(parsed.data[lineIndex + 1]).ok
                       THEN "record" ELSE "error")
  /\ lineIndex' = lineIndex + 1
  /\ UNCHANGED <<format, lines, pc, headerFields, inObservations, headerParsed, parsed>>
  /\ UNCHANGED others

CsvFinish ==
  /\ pc = "rows"
  /\ lineIndex = Len(parsed.data)
  /\ result' = Finished(result)
  /\ pc' = "done"
  /\ UNCHANGED <<format, lines, lineIndex, headerFields, inObservations, headerParsed,
                 parsed, outcome>>
  /\ UNCHANGED others

NextAspect == AspectLineStep \/ AspectFinish

NextCsv == CsvParse \/ CsvRowStep \/ CsvFinish

Next == NextAspect \/ NextCsv

\* both decoders
Spec == Init /\ [][Next]_vars

\* parseAspectTextFile alone
SpecAspect == InitAspect /\ [][NextAspect]_vars

\* parseObservationsCsv alone
SpecCsv == InitCsv /\ [][NextCsv]_vars

(***************************************************************************)
(* detectFileFormat as a state machine: one call on a name and a content.  *)
(*   pc   "detect": before the call; "detected": format holds its result   *)
(***************************************************************************)
InitDetect ==
  /\ format = ""
  /\ filename \in FileNames
  /\ lines \in DetectContents
  /\ pc = "detect"
  /\ Locals
  /\ ExportIdle
  /\ PageIdle
  /\ StoreIdle

Detect ==
  /\ pc = "detect"
  /\ format' = DetectFileFormat(filename, lines)
  /\ pc' = "detected"
  /\ UNCHANGED <<lines, lineIndex, headerFields, inObservations, headerParsed, parsed,
                 result, outcome>>
  /\ UNCHANGED others

SpecDetect == InitDetect /\ [][Detect]_vars

(***************************************************************************)
(* The exporters as a state machine: one call of exportToCsv or of         *)
(* exportToAspect, and parseObservationsCsv on the text exportToCsv        *)
(* returned.                                                               *)
(*   pc   "export": before the call; "csv", "report": text holds what      *)
(*        exportToCsv, exportToAspect returned; then as in the decoder     *)
(***************************************************************************)
InitExport ==
  /\ format = ""
  /\ lines = <<>>
  /\ pc = "export"
  /\ Locals
  /\ filename = <<>>
  /\ cruise \in ExportCruises
  /\ records \in SeqsUpTo(ExportRecords, MaxRows)
  /\ text = <<>>
  /\ PageIdle
  /\ StoreIdle

ExportCsv ==
  /\ pc = "export"
  /\ text' = ExportToCsv(cruise, records)
  /\ pc' = "csv"
  /\ UNCHANGED <<format, lines, lineIndex, headerFields, inObservations, headerParsed,
                 parsed, result, outcome, filename, cruise, records, pageVars,
                 storeVars>>

ExportAspect ==
  /\ pc = "export"
  /\ text' = ExportToAspect(cruise, records)
  /\ pc' = "report"
  /\ UNCHANGED <<format, lines, lineIndex, headerFields, inObservations, headerParsed,
                 parsed, result, outcome, filename, cruise, records, pageVars,
                 storeVars>>

\* no cell of the rows holds a line break, so that every row is one line
\* of the text
RowsOnOneLine ==
  \A i \in 1..Len(records) : \A j \in 1..Len(ExportHeaders) :
    Range(ExportRow(cruise, records[i])[j]) \cap {"\n", "\r"} = {}

\* parseObservationsCsv is called on the text
Reimport ==
  /\ pc = "csv"
  /\ RowsOnOneLine
  /\ lines' = Split(text, "\n")
  /\ format' = "csv"
  /\ pc' = "parse"
  /\ UNCHANGED <<lineIndex, headerFields, inObservations, headerParsed, parsed, result,
                 outcome, filename, cruise, records, text, pageVars, storeVars>>

NextExport == ExportCsv \/ ExportAspect \/ Reimport \/ CsvParse \/ CsvRowStep \/ CsvFinish

SpecExport == InitExport /\ [][NextExport]_vars

(***************************************************************************)
(* The Import page, the writes of its imports and a cruiseAPI.delete as a  *)
(* state machine.  A write is started by handleImport and is added or      *)
(* fails later, in any order.  The store runs the operations on one table  *)
(* in the order they were started: deleteByCruise waits for the writes     *)
(* started before it (deleting.mark counts them), and a write started      *)
(* after it waits for it.                                                  *)
(*   deleting.step   "idle"; "observations": deleteByCruise is awaited;    *)
(*                   "cruise": db.cruises.delete is awaited; "done"        *)
(***************************************************************************)
InitPage ==
  /\ format = ""
  /\ lines = <<>>
  /\ pc = "page"
  /\ Locals
  /\ filename = <<>>
  /\ ExportIdle
  /\ StoreIdle
  /\ page = [file |-> <<>>, cruiseId |-> "", importing |-> FALSE, result |-> <<>>,
             left |-> FALSE]
  /\ reading = {}
  /\ writes = <<>>
  /\ db = [cruises |-> {PageCruises[i].uuid : i \in 1..Len(PageCruises)}, observations |-> {}]
  /\ deleting = [uuid |-> "", step |-> "idle", mark |-> 0]

\* what no action of the page or the store changes
PageFrame == UNCHANGED <<decoderVars, filename, exportVars, storeVars>>

HandleFileSelect(f) ==
  /\ ~page.left /\ page.file = <<>>
  /\ page' = [page EXCEPT !.file = <<f>>, !.result = <<>>]
  /\ UNCHANGED <<reading, writes, db, deleting>>
  /\ PageFrame

\* typed: droppedFile.type is text/csv, text/plain or ''
HandleDrop(f, typed) ==
  /\ ~page.left /\ page.file = <<>>
  /\ \/ typed
     \/ EndsWith(f.name, DotCsv)
     \/ EndsWith(f.name, <<".", "t", "x", "t">>)
     \/ VoyageFileName(f.name)
  /\ page' = [page EXCEPT !.file = <<f>>, !.result = <<>>]
  /\ UNCHANGED <<reading, writes, db, deleting>>
  /\ PageFrame

HandleReset ==
  /\ ~page.left /\ page.file # <<>>
  /\ page' = [page EXCEPT !.file = <<>>, !.result = <<>>]
  /\ UNCHANGED <<reading, writes, db, deleting>>
  /\ PageFrame

\* the cruise select changes
SetCruiseId(c) ==
  /\ ~page.left
  /\ page' = [page EXCEPT !.cruiseId = c]
  /\ UNCHANGED <<reading, writes, db, deleting>>
  /\ PageFrame

\* handlePreview up to its await
HandlePreview ==
  /\ ~page.left /\ page.file # <<>> /\ ~page.importing
  /\ Cardinality(reading \cup {page.file[1]}) <= MaxReading
  /\ reading' = reading \cup {page.file[1]}
  /\ UNCHANGED <<page, writes, db, deleting>>
  /\ PageFrame

\* handlePreview from its await on, for the file f it read
PreviewRead(f) ==
  /\ f \in reading
  /\ reading' = reading \ {f}
  /\ page' = IF page.left THEN page
             ELSE [page EXCEPT !.result = <<Decode(f)>>,
                               !.cruiseId = TryAutoSelectCruise(PageCruises, Decode(f), @)]
  /\ UNCHANGED <<writes, db, deleting>>
  /\ PageFrame

\* handleImport up to its await: every write is started
HandleImport ==
  /\ ~page.left
  /\ ImportEnabled(page)
  /\ Imports(writes) < MaxImports
  /\ writes' = writes \o Started(writes, page.result[1], page.cruiseId)
  /\ page' = IF page.result[1].observations = <<>> THEN Navigated(page)
             ELSE [page EXCEPT !.importing = TRUE]
  /\ UNCHANGED <<reading, db, deleting>>
  /\ PageFrame

\* write k may run: it is pending, and deleteByCruise is not before it
MayRun(k) ==
  /\ k \in 1..Len(writes)
  /\ writes[k].state = "pending"
  /\ deleting.step = "observations" => k <= deleting.mark

\* the page when the writes have become w, by a change to a write of
\* import n: handleImport goes on from its await when Promise.all settles
Settled(w, n, first) ==
  IF page.left \/ ~page.importing \/ n # Imports(w) THEN page
  ELSE IF first THEN Caught(page)
  ELSE IF AllAdded(w, n) THEN Navigated(page)
  ELSE page

\* db.observations.add of write k succeeds
CreateAdded(k) ==
  /\ MayRun(k)
  /\ writes' = [writes EXCEPT ![k].state = "added"]
  /\ db' = [db EXCEPT !.observations = @ \cup {k}]
  /\ page' = Settled(writes', writes[k].import, FALSE)
  /\ UNCHANGED <<reading, deleting>>
  /\ PageFrame

\* db.observations.add of write k fails
CreateFailed(k) ==
  /\ MayRun(k)
  /\ writes' = [writes EXCEPT ![k].state = "failed"]
  /\ page' = Settled(writes', writes[k].import, ~Rejected(writes, writes[k].import))
  /\ UNCHANGED <<reading, db, deleting>>
  /\ PageFrame

\* cruiseAPI.delete(uuid) is called: deleteByCruise is started
DeleteCalled(uuid) ==
  /\ deleting.step = "idle"
  /\ uuid \in db.cruises
  /\ deleting' = [uuid |-> uuid, step |-> "observations", mark |-> Len(writes)]
  /\ UNCHANGED <<page, reading, writes, db>>
  /\ PageFrame

\* deleteByCruise runs, and db.cruises.delete is started
DeleteByCruise ==
  /\ deleting.step = "observations"
  /\ \A k \in 1..deleting.mark : writes[k].state # "pending"
  /\ db' = [db EXCEPT !.observations =
                        {k \in @ : writes[k].observation.cruise # deleting.uuid}]
  /\ deleting' = [deleting EXCEPT !.step = "cruise"]
  /\ UNCHANGED <<page, reading, writes>>
  /\ PageFrame

\* db.cruises.delete runs, and cruiseAPI.delete returns
CruiseDelete ==
  /\ deleting.step = "cruise"
  /\ db' = [db EXCEPT !.cruises = @ \ {deleting.uuid}]
  /\ deleting' = [deleting EXCEPT !.step = "done"]
  /\ UNCHANGED <<page, reading, writes>>
  /\ PageFrame

NextPage ==
  \/ \E f \in PageFiles : HandleFileSelect(f)
  \/ \E f \in PageFiles, typed \in BOOLEAN : HandleDrop(f, typed)
  \/ HandleReset
  \/ \E c \in {""} \cup {PageCruises[i].uuid : i \in 1..Len(PageCruises)} : SetCruiseId(c)
  \/ HandlePreview
  \/ \E f \in PageFiles : PreviewRead(f)
  \/ HandleImport
  \/ \E k \in 1..Len(writes) : CreateAdded(k)
  \/ \E k \in 1..Len(writes) : CreateFailed(k)
  \/ \E uuid \in db.cruises : DeleteCalled(uuid)
  \/ DeleteByCruise
  \/ CruiseDelete

SpecPage == InitPage /\ [][NextPage]_vars

(***************************************************************************)
(* Reading the history: which line or row gave which entry of the result.  *)
(***************************************************************************)
\* the steps so far that took branch k, in order
Steps(k) == SelectSeq([i \in 1..Len(outcome) |-> i], LAMBDA i : outcome[i] = k)

\* the number of the line of `lines` that step i (a line of the domain
\* format, a row of the tabular format) worked on
LineOfStep(i) == IF format = "aspect" THEN i ELSE parsed.lineNo[i]

\* the line the decoder took as the header
HeaderLineNo ==
  IF format = "aspect" THEN Steps("header")[1] ELSE KeptLines(lines, Len(lines))[1]

\* the file that holds the header and the line of step i and nothing else
Alone(i) ==
  IF format = "aspect" THEN ParseAspectTextFile(<<Marker, lines[HeaderLineNo], lines[i]>>)
  ELSE ParseObservationsCsv(<<lines[HeaderLineNo], lines[LineOfStep(i)]>>)

\* the lines of a domain-format file that are data rows: after the header,
\* not blank and not the marker
AspectDataLines ==
  {i \in 1..Len(lines) : /\ Steps("header") # <<>>
                         /\ i > HeaderLineNo
                         /\ Trim(lines[i]) \notin {<<>>, Marker}}

\* the rows of a tabular file: every line with a character after the header
CsvDataLines ==
  {i \in 1..Len(lines) : lines[i] # <<>> /\ \E j \in 1..(i - 1) : lines[j] # <<>>}

(***************************************************************************)
(* C1.  In both decoders a rejected row never aborts the decode: every     *)
(* data row is evaluated, whatever was rejected before it; a rejected row  *)
(* gives no record and an accepted row exactly one; and a row is accepted  *)
(* if and only if it is accepted in the file that holds only the header    *)
(* and that row.                                                           *)
(***************************************************************************)
C1_RejectedRowDoesNotAbort ==
  /\ Len(result.observations) = Len(Steps("record"))
  /\ \A i \in 1..Len(outcome) :
       outcome[i] \in {"record", "error"} =>
         (outcome[i] = "record" <=> Len(Alone(i).observations) = 1)
  /\ pc = "done" =>
       {LineOfStep(i) : i \in {j \in 1..Len(outcome) : outcome[j] \in {"record", "error"}}}
         = IF format = "aspect" THEN AspectDataLines ELSE CsvDataLines

\* a finished decode in which a row is accepted after a rejected one
C1_Witness ==
  /\ pc = "done"
  /\ \E i, j \in 1..Len(outcome) : i < j /\ outcome[i] = "error" /\ outcome[j] = "record"
  /\ Len(result.observations) >= 1

(***************************************************************************)
(* C2.  In parseObservationsCsv a data row whose Date/Time, Latitude or    *)
(* Longitude cell is missing or blank is not added to observations, and    *)
(* the errors list holds exactly one entry for it, which cites the number  *)
(* of the row's line in the source text (the header being line 1),         *)
(* whatever blank lines or rejected rows come before it.                   *)
(***************************************************************************)
CsvRequiredKeys == {H.DateTime, H.Latitude, H.Longitude}

\* a required cell of the row is missing or blank
MissingRequired(row) ==
  \E key \in CsvRequiredKeys : key \notin DOMAIN row \/ Trim(row[key]) = <<>>

\* the entries of errors that are about data row i: Papa's entries carry the
\* 0-based index of the row, the decoder's own carry CsvErrorRow of it
EntriesAbout(i) ==
  {e \in 1..Len(result.errors) :
     IF e <= Len(parsed.errors) THEN result.errors[e].row = i - 1
     ELSE e = Len(parsed.errors) + Len(SelectSeq(SubSeq(outcome, 1, i),
                                                  LAMBDA k : k = "error"))
          /\ outcome[i] = "error"}

C2_MissingRequiredCitesLine ==
  (format = "csv" /\ pc = "done") =>
    \A i \in 1..Len(parsed.data) :
      MissingRequired(parsed.data[i]) =>
        /\ outcome[i] = "error"
        /\ Cardinality(EntriesAbout(i)) = 1
        /\ \A e \in EntriesAbout(i) : result.errors[e].row = parsed.lineNo[i]

(***************************************************************************)
(* C3.  In parseObservationsCsv a row with valid Date/Time, Latitude and   *)
(* Longitude whose Ice Concentration is outside [0,100], Wind Speed below  *)
(* 0, Wind Direction outside [0,360] or Cloud Cover outside [0,8] is       *)
(* accepted: the step adds nothing to errors and adds the record the row   *)
(* gives with the offending cell empty, which leaves that field unset.     *)
(***************************************************************************)
CsvRanges ==
  { [col |-> H.IceConcentration, field |-> "total_ice_concentration", lo |-> 0, hi |-> 100],
    [col |-> H.WindSpeed, field |-> "wind_speed", lo |-> 0, hi |-> -1],
    [col |-> H.WindDirection, field |-> "wind_direction", lo |-> 0, hi |-> 360],
    [col |-> H.CloudCover, field |-> "cloud_cover", lo |-> 0, hi |-> 8] }

\* the cell holds a number outside the range r (hi < lo: no upper end)
OutsideRange(cell, r) ==
  /\ cell # <<>>
  /\ ~IsNaN(ParseFloat(cell))
  /\ \/ LessThan(ParseFloat(cell), r.lo)
     \/ (r.hi >= r.lo /\ GreaterThan(ParseFloat(cell), r.hi))

Emptied(row, col) == [row EXCEPT ![col] = <<>>]

\* the row is valid but for its cell of range r, which is out of range
CsvOutOfRange(row, r) ==
  /\ r.col \in DOMAIN row
  /\ OutsideRange(Trim(row[r.col]), r)
  /\ ParseObservationRow(Emptied(row, r.col)).ok

C3_CsvOutOfRangeUnset ==
  [][(format = "csv" /\ pc = "rows" /\ lineIndex' = lineIndex + 1) =>
       \A r \in CsvRanges :
         CsvOutOfRange(parsed.data[lineIndex + 1], r) =>
           /\ result'.errors = result.errors
           /\ result'.observations =
                Append(result.observations,
                       ParseObservationRow(Emptied(parsed.data[lineIndex + 1], r.col)).obs)
           /\ r.field \notin DOMAIN result'.observations[Len(result'.observations)]]_vars

\* a row with a wind direction of 400 has been accepted
C3_Witness ==
  /\ format = "csv"
  /\ \E i \in 1..Len(outcome) :
       /\ outcome[i] = "record"
       /\ \E r \in CsvRanges : r.field = "wind_direction" /\ CsvOutOfRange(parsed.data[i], r)
  /\ \E j \in 1..Len(result.observations) :
       "wind_direction" \notin DOMAIN result.observations[j]

(***************************************************************************)
(* C4.  In parseAspectTextFile a row with valid date, latitude and         *)
(* longitude whose wind_speed is below 0, wind_direction outside [0,360]   *)
(* or cloud_cover outside [0,8] is accepted: the step adds nothing to      *)
(* errors and adds the record the row gives with the offending value       *)
(* empty, which leaves that field unset.                                   *)
(***************************************************************************)
AspectRanges ==
  { [col |-> F.wind_speed, field |-> "wind_speed", lo |-> 0, hi |-> -1],
    [col |-> F.wind_direction, field |-> "wind_direction", lo |-> 0, hi |-> 360],
    [col |-> F.cloud_cover, field |-> "cloud_cover", lo |-> 0, hi |-> 8] }

\* the values of a data line
ValuesOf(line) == Split(Trim(line), ";")

\* the values with the one under header col emptied
EmptiedAt(values, headers, col) == [values EXCEPT ![IndexOf(headers, col)] = <<>>]

\* the line is a valid row but for its value of range r, which is out of range
AspectOutOfRange(line, headers, r) ==
  /\ IndexOf(headers, r.col) \in 1..Len(ValuesOf(line))
  /\ OutsideRange(AspectGet(ValuesOf(line), headers, r.col), r)
  /\ AspectValues(EmptiedAt(ValuesOf(line), headers, r.col), headers).ok

\* the line in hand is a data row
AtDataRow ==
  /\ format = "aspect" /\ pc = "lines" /\ lineIndex < Len(lines)
  /\ inObservations /\ headerParsed
  /\ Trim(lines[lineIndex + 1]) \notin {<<>>, Marker}

C4_AspectOutOfRangeUnset ==
  [][(AtDataRow /\ lineIndex' = lineIndex + 1) =>
       \A r \in AspectRanges :
         AspectOutOfRange(lines[lineIndex + 1], headerFields, r) =>
           /\ result'.errors = result.errors
           /\ result'.observations =
                Append(result.observations,
                       AspectValues(EmptiedAt(ValuesOf(lines[lineIndex + 1]),
                                              headerFields, r.col), headerFields).obs)
           /\ r.field \notin DOMAIN result'.observations[Len(result'.observations)]]_vars

\* a line with a wind direction of 400 has been accepted
C4_Witness ==
  /\ format = "aspect"
  /\ \E i \in 1..Len(outcome) :
       /\ outcome[i] = "record"
       /\ \E r \in AspectRanges :
            r.field = "wind_direction" /\ AspectOutOfRange(lines[i], headerFields, r)
  /\ \E j \in 1..Len(result.observations) :
       "wind_direction" \notin DOMAIN result.observations[j]

(***************************************************************************)
(* The record that step i added.                                           *)
(***************************************************************************)
RecordOf(i) ==
  result.observations[Len(SelectSeq(SubSeq(outcome, 1, i), LAMBDA k : k = "record"))]

IceSlots == <<"primary_ice", "secondary_ice", "tertiary_ice">>

\* the value of the line of step i under ice_observations.n.<f>
IceCell(i, n, f) == AspectGet(ValuesOf(lines[i]), headerFields, IcePrefix(n) \o f)

\* the text holds a number
HoldsNumber(cell) == cell # <<>> /\ ~IsNaN(ParseFloat(cell))

(***************************************************************************)
(* C5 as amended.  For every accepted data row of parseAspectTextFile and  *)
(* n in {1,2,3}: slot n (primary, secondary, tertiary) is set if and only  *)
(* if ice_observations.n.ice_concentration holds a number or               *)
(* ice_observations.n.ice_type is not blank; otherwise the slot is absent, *)
(* also when the concentration is present but no number; and no category   *)
(* that is set has both its concentration and its type blank.              *)
(***************************************************************************)
C5_SlotIffNumberOrType ==
  format = "aspect" =>
    \A i \in 1..Len(outcome) : outcome[i] = "record" =>
      \A n \in 1..3 :
        /\ IceSlots[n] \in DOMAIN RecordOf(i)
             <=> \/ HoldsNumber(IceCell(i, n, F.ice_concentration))
                 \/ IceCell(i, n, F.ice_type) # <<>>
        /\ IceSlots[n] \in DOMAIN RecordOf(i) =>
             ~(/\ IceCell(i, n, F.ice_concentration) = <<>>
               /\ RecordOf(i)[IceSlots[n]].ice_type = <<>>)

\* an accepted row whose concentration is present but no number, with a
\* blank type, has its slot absent, and an accepted row has a slot set
C5_Witness ==
  /\ format = "aspect"
  /\ \E i \in 1..Len(outcome) :
       /\ outcome[i] = "record"
       /\ IceCell(i, 1, F.ice_concentration) # <<>>
       /\ ~HoldsNumber(IceCell(i, 1, F.ice_concentration))
       /\ IceCell(i, 1, F.ice_type) = <<>>
       /\ "primary_ice" \notin DOMAIN RecordOf(i)
       /\ "secondary_ice" \in DOMAIN RecordOf(i)

\* C5 as the specification states it: slot n is set if and only if
\* ice_observations.n.ice_concentration or ice_observations.n.ice_type is
\* present in the row
C5_SlotIffPresent ==
  format = "aspect" =>
    \A i \in 1..Len(outcome) : outcome[i] = "record" =>
      \A n \in 1..3 :
        IceSlots[n] \in DOMAIN RecordOf(i)
          <=> \/ IceCell(i, n, F.ice_concentration) # <<>>
              \/ IceCell(i, n, F.ice_type) # <<>>

(***************************************************************************)
(* C6.  parseAspectTextFile never stores a per-category ice_concentration  *)
(* outside [0,10] (tenths).                                                *)
(***************************************************************************)
C6_CategoryConcentrationInTenths ==
  format = "aspect" =>
    \A j \in 1..Len(result.observations) :
      \A n \in 1..3 :
        IceSlots[n] \in DOMAIN result.observations[j] =>
          Within(result.observations[j][IceSlots[n]].ice_concentration, 0, 10)

(***************************************************************************)
(* C7.  For both decoders the observations are in the order of their rows  *)
(* in the input, and the entries of the errors list are in the order of    *)
(* the lines they are about.                                               *)
(***************************************************************************)
\* the steps that pushed an entry to errors, in order
RejectSteps ==
  SelectSeq([i \in 1..Len(outcome) |-> i],
            LAMBDA i : outcome[i] \in {"metaError", "error"})

\* the line Papa's error e is about: 0 for an error about the whole file
PapaErrorLine(e) ==
  IF parsed.errors[e].row < 0 THEN 0 ELSE parsed.lineNo[parsed.errors[e].row + 1]

\* for each entry of errors, the line of the input it is about
ErrorLines ==
  [e \in 1..Len(parsed.errors) |-> PapaErrorLine(e)]
    \o [j \in 1..Len(RejectSteps) |-> LineOfStep(RejectSteps[j])]

C7_OutputInInputOrder ==
  /\ Len(result.observations) = Len(Steps("record"))
  /\ \A j \in 1..Len(result.observations) :
       result.observations[j] = Alone(Steps("record")[j]).observations[1]
  /\ Len(result.errors) = Len(ErrorLines)
  /\ \A a, b \in 1..Len(ErrorLines) : a < b => ErrorLines[a] <= ErrorLines[b]

(***************************************************************************)
(* C8.  Every row error of parseAspectTextFile cites the 1-based number of *)
(* the offending line in the original content, blank lines, the metadata   *)
(* line, the marker and the header all counted: the line it cites is the   *)
(* line that was rejected, and it fails with the message of the entry.     *)
(***************************************************************************)
C8_ErrorCitesContentLine ==
  format = "aspect" =>
    /\ Len(result.errors) = Len(Steps("metaError")) + Len(Steps("error"))
    /\ \A j \in 1..Len(Steps("error")) :
         /\ result.errors[Len(Steps("metaError")) + j].row = Steps("error")[j]
         /\ result.errors[Len(Steps("metaError")) + j].msg
              = ParseAspectRow(Trim(lines[Steps("error")[j]]), headerFields).msg
         /\ ~ParseAspectRow(Trim(lines[Steps("error")[j]]), headerFields).ok

\* a rejected row whose line number is not its place among the data rows
C8_Witness ==
  /\ format = "aspect" /\ pc = "done"
  /\ \E i \in 1..Len(outcome) :
       /\ outcome[i] = "error"
       /\ \E j \in 1..(i - 1) : outcome[j] = "blank"
       /\ \E e \in 1..Len(result.errors) : result.errors[e].row = i /\ i > 4

(***************************************************************************)
(* C9.  For a domain file made of a metadata object line, the marker line, *)
(* a header with date;time;latitude;longitude and k data lines with valid  *)
(* values, parseAspectTextFile returns exactly k observations, no errors,  *)
(* and a cruiseMeta whose name is the name member of the metadata object.  *)
(***************************************************************************)
ValidRows == {RowGoodA, RowGoodB, RowIceType}

WellFormed ==
  /\ Len(lines) >= 3
  /\ lines[1] = MetaGood /\ lines[2] = Marker /\ lines[3] = HeaderFull
  /\ \A i \in 4..Len(lines) : lines[i] \in ValidRows

C9_WellFormedFile ==
  (format = "aspect" /\ pc = "done" /\ WellFormed) =>
    /\ Len(result.observations) = Len(lines) - 3
    /\ result.imported = Len(lines) - 3
    /\ result.errors = <<>>
    /\ result.success
    /\ Len(result.cruiseMeta) = 1
    /\ <<"n","a","m","e">> \in DOMAIN result.cruiseMeta[1]
    /\ result.cruiseMeta[1][<<"n","a","m","e">>] = <<"J","R","2","6">>

\* a well-formed file of two data lines, one without a time, is decoded
C9_Witness ==
  /\ format = "aspect" /\ pc = "done" /\ WellFormed
  /\ Len(lines) = 5 /\ \E i \in 4..5 : lines[i] = RowGoodB
  /\ Len(result.observations) = 2

(***************************************************************************)
(* C10.  When the first line of a domain file looks like a metadata object *)
(* but is no JSON, parseAspectTextFile adds exactly one entry to errors    *)
(* for it, leaves cruiseMeta absent, and decodes the rest of the file as   *)
(* it decodes the file with that line blank.                               *)
(***************************************************************************)
WithoutPreamble == ParseAspectTextFile([lines EXCEPT ![1] = <<>>])

C10_MalformedPreamble ==
  (format = "aspect" /\ pc = "done" /\ lines[1] = MetaBad) =>
    /\ result.cruiseMeta = <<>>
    /\ result.observations = WithoutPreamble.observations
    /\ result.imported = WithoutPreamble.imported
    /\ Len(result.errors) = Len(WithoutPreamble.errors) + 1
    /\ result.errors[1].row = 1
    /\ result.errors[1].msg = "Failed to parse cruise metadata JSON"
    /\ SubSeq(result.errors, 2, Len(result.errors)) = WithoutPreamble.errors
    /\ ~result.success

\* a file with a malformed preamble, an accepted and a rejected row
C10_Witness ==
  /\ format = "aspect" /\ pc = "done" /\ lines[1] = MetaBad
  /\ Len(result.observations) = 1
  /\ Len(result.errors) = 2

(***************************************************************************)
(* The rules of the detector, read off the name and the content.           *)
(***************************************************************************)
\* 8 digits, 2 letters, 1 or more digits and nothing else
NamedAsVoyageFile ==
  /\ Len(filename) > 10
  /\ \A i \in 1..Len(filename) :
       IF i \in {9, 10} THEN filename[i] \in Range(UpperCase) \cup Range(LowerCase)
       ELSE filename[i] \in Range(Digits)

\* the last four characters of the name, or <<>>
Extension == IF Len(filename) < 4 THEN <<>> ELSE SubSeq(filename, Len(filename) - 3, Len(filename))

EndsInDotCsv == Extension = <<".", "c", "s", "v">>

EndsInDotCsvAnyCase ==
  /\ Extension # <<>>
  /\ Extension[1] = "."
  /\ Extension[2] \in {"c", "C"} /\ Extension[3] \in {"s", "S"} /\ Extension[4] \in {"v", "V"}

\* '---OBSERVATIONS---' occurs in the content
MarkerInContent ==
  \E i \in 1..Len(lines) : \E k \in 0..Len(lines[i]) :
    /\ k + Len(Marker) <= Len(lines[i])
    /\ \A j \in 1..Len(Marker) : lines[i][k + j] = Marker[j]

(***************************************************************************)
(* C11 as amended.  detectFileFormat returns a format for every name and   *)
(* content, by its rules in a fixed order: a name of 8 digits, 2 letters   *)
(* and 1 or more digits gives 'aspect' for every content; otherwise a name *)
(* that ends in .csv in any letter case (data.csv, DATA.CSV, notes.Csv)    *)
(* gives 'csv' for every content, the marker in it or not; otherwise a     *)
(* content that contains '---OBSERVATIONS---' gives 'aspect'; otherwise    *)
(* the result is 'csv'.                                                    *)
(***************************************************************************)
C11_DetectByRulesAnyCase ==
  pc = "detected" =>
    /\ format \in {"aspect", "csv"}
    /\ format = IF NamedAsVoyageFile THEN "aspect"
                ELSE IF EndsInDotCsvAnyCase THEN "csv"
                ELSE IF MarkerInContent THEN "aspect"
                ELSE "csv"

\* a name that ends in .CSV with the marker in the content has been found
\* tabular
C11_Witness ==
  /\ pc = "detected"
  /\ ~NamedAsVoyageFile /\ EndsInDotCsvAnyCase /\ ~EndsInDotCsv /\ MarkerInContent
  /\ format = "csv"

\* C11 as the specification states it: the second rule is for a name that
\* ends in .csv
C11_DetectByRules ==
  pc = "detected" =>
    /\ format \in {"aspect", "csv"}
    /\ format = IF NamedAsVoyageFile THEN "aspect"
                ELSE IF EndsInDotCsv THEN "csv"
                ELSE IF MarkerInContent THEN "aspect"
                ELSE "csv"

(***************************************************************************)
(* C16.  The category of a row that supplies a concentration only.         *)
(***************************************************************************)
\* the columns of a category other than its concentration
IceOtherColumns ==
  {F.ice_type, F.ice_thickness, F.floe_size, F.topography, F.snow_type, F.snow_thickness,
   F.brown_ice, F.melt_pond_areal_coverage, F.melt_pond_depth, F.melt_pond_length_1,
   F.melt_pond_length_2}

\* the attributes of IceObservation that the interface marks optional
IceOptionalAttributes ==
  {"snow_type", "snow_thickness", "brown_ice", "melt_pond_coverage", "melt_pond_depth",
   "melt_pond_length_1", "melt_pond_length_2"}

\* the line of step i supplies a number as ice_observations.n.ice_concentration
\* and no other ice_observations.n.* value
ConcentrationOnly(i, n) ==
  /\ HoldsNumber(IceCell(i, n, F.ice_concentration))
  /\ \A f \in IceOtherColumns : IceCell(i, n, f) = <<>>

\* C16 (as amended): an accepted row that supplies a number as
\* ice_observations.n.ice_concentration and no other ice_observations.n.*
\* value yields a category with that concentration in which ice_type,
\* ice_thickness, floe_size and topography are present and empty, and in
\* which no optional attribute is present.
C16_RequiredEmptyOptionalAbsent ==
  format = "aspect" =>
    \A i \in 1..Len(outcome) : outcome[i] = "record" =>
      \A n \in 1..3 : ConcentrationOnly(i, n) =>
        /\ IceSlots[n] \in DOMAIN RecordOf(i)
        /\ DOMAIN RecordOf(i)[IceSlots[n]] =
             {"ice_concentration", "ice_type", "ice_thickness", "floe_size", "topography"}
        /\ RecordOf(i)[IceSlots[n]].ice_concentration =
             ParseFloat(IceCell(i, n, F.ice_concentration))
        /\ \A a \in {"ice_type", "ice_thickness", "floe_size", "topography"} :
             RecordOf(i)[IceSlots[n]][a] = <<>>

\* an accepted row with ice_observations.1.ice_concentration = 5 alone
C16_Witness ==
  /\ format = "aspect"
  /\ \E i \in 1..Len(outcome) :
       /\ outcome[i] = "record"
       /\ ConcentrationOnly(i, 1)
       /\ IceCell(i, 1, F.ice_concentration) = <<"5">>
       /\ RecordOf(i).primary_ice.ice_concentration = Num(5 * Scale)

\* C16: such a row yields a category in which every attribute other than
\* the concentration is present with an empty value; no attribute of the
\* category is undefined.
C16_EveryAttributePresent ==
  format = "aspect" =>
    \A i \in 1..Len(outcome) : outcome[i] = "record" =>
      \A n \in 1..3 : ConcentrationOnly(i, n) =>
        /\ IceSlots[n] \in DOMAIN RecordOf(i)
        /\ \A a \in {"ice_type", "ice_thickness", "floe_size", "topography"} :
             a \in DOMAIN RecordOf(i)[IceSlots[n]] /\ RecordOf(i)[IceSlots[n]][a] = <<>>
        /\ IceOptionalAttributes \subseteq DOMAIN RecordOf(i)[IceSlots[n]]

(***************************************************************************)
(* The exporters.                                                          *)
(***************************************************************************)
\* a record that holds a timestamp and a position and nothing else
Minimal(rec) == DOMAIN rec = {"entry_datetime", "latitude", "longitude"}

\* parseObservationsCsv has returned for the export of one minimal record
MinimalReimported ==
  /\ pc = "done"
  /\ text # <<>>
  /\ Len(records) = 1
  /\ Minimal(records[1])

\* C12: the tabular export of one minimal record, for any cruise, is read
\* back by parseObservationsCsv as exactly one observation with the same
\* latitude and longitude and with no errors.
C12_MinimalRoundTrip ==
  MinimalReimported =>
    /\ Len(result.observations) = 1
    /\ result.errors = <<>>
    /\ result.observations[1].latitude = records[1].latitude
    /\ result.observations[1].longitude = records[1].longitude

\* exportToCsv has returned a text in which every row is one line
RowsExported == pc = "csv" /\ RowsOnOneLine

\* the line of the exported text that holds record i
RowLine(i) == Split(text, "\n")[i + 1]

\* C13: every data row of the exported text has as many cells as the header
\* line, and its cells are the values of the record in the order of the
\* header, an absent value being an empty cell, whatever the text values
\* are.
C13_RowCellsAsHeader ==
  RowsExported =>
    \A i \in 1..Len(records) :
      /\ Len(CsvCells(RowLine(i))) = Len(CsvCells(Split(text, "\n")[1]))
      /\ CsvCells(RowLine(i)) = ExportRow(cruise, records[i])

\* C14: the exported text of n records is exactly n + 1 lines, the header
\* and one line per record in the order of the input, whatever text the
\* fields of the records hold.
C14_OneLinePerRecord ==
  pc = "csv" =>
    /\ Len(Split(text, "\n")) = Len(records) + 1
    /\ Split(text, "\n")[1] = Join(ExportHeaders, <<",">>)
    /\ \A i \in 1..Len(records) : RowLine(i) = ExportLine(ExportRow(cruise, records[i]))

\* s with one blank for each line break: a carriage return and a line feed
\* that follows it are one line break
\* s without the line feeds that follow a carriage return
PairsAsOne(s) == Join(Pieces(s, {i \in 2..Len(s) : s[i] = "\n" /\ s[i - 1] = "\r"}), <<>>)

OneBlankPerBreak(s) ==
  [i \in 1..Len(PairsAsOne(s)) |->
     IF PairsAsOne(s)[i] \in {"\n", "\r"} THEN " " ELSE PairsAsOne(s)[i]]

\* C15: the Comments cell of a row holds the comments of the record with
\* every line break (a line feed, a carriage return, or a carriage return
\* and line feed pair) replaced by a single blank, and no line break.
C15_OneBlankPerLineBreak ==
  RowsExported =>
    \A i \in 1..Len(records) :
      /\ Range(ExportRow(cruise, records[i])[30]) \cap {"\n", "\r"} = {}
      /\ ExportRow(cruise, records[i])[30] = OneBlankPerBreak(TextCell(records[i], "comments"))
      /\ EndsWith(RowLine(i), Quoted(OneBlankPerBreak(TextCell(records[i], "comments"))))

\* the lines of the text exportToAspect returned
ReportLines == Split(text, "\n")

\* among the lines ls, the line that opens the block of record i
BlockStart(ls, i) ==
  Least({k \in 1..Len(ls) : ls[k] = Label.Observation \o NatToString(i)})

\* the lines of the block of record i after its first, up to the empty
\* line that closes it
BlockFrom(ls, start) ==
  SubSeq(ls, start + 1, Least({k \in (start + 1)..Len(ls) : ls[k] = <<>>}) - 1)

BlockOf(ls, i) == BlockFrom(ls, BlockStart(ls, i))

\* the lines of block b that start with `label`
LinesOf(b, label) == {k \in 1..Len(b) : StartsWith(b[k], label)}

ReportNumbers == {"total_ice_concentration", "air_temp", "water_temp", "wind_speed"}

ReportTexts == {"weather", "observer", "comments"}

ReportSlots == {"primary_ice", "secondary_ice", "tertiary_ice"}

\* the start of the line of each field the report lists
FieldLabel ==
  [f \in ReportNumbers \cup ReportTexts \cup ReportSlots |->
     CASE f = "total_ice_concentration" -> Label.TotalIce
       [] f = "air_temp" -> Label.AirTemp
       [] f = "water_temp" -> Label.WaterTemp
       [] f = "wind_speed" -> Label.Wind
       [] f = "weather" -> Label.Weather
       [] f = "observer" -> Label.Observer
       [] f = "comments" -> Label.Comments
       [] f = "primary_ice" -> Label.Primary \o <<":", " ">>
       [] f = "secondary_ice" -> Label.Secondary \o <<":", " ">>
       [] f = "tertiary_ice" -> Label.Tertiary \o <<":", " ">>]

\* the record holds a value for the field: a number, a category, or a text
\* that is not blank
Populated(rec, f) == f \in DOMAIN rec /\ (f \in ReportTexts => rec[f] # <<>>)

\* text p occurs in text s
Holds(s, p) == \E k \in 1..(Len(s) - Len(p) + 1) : SubSeq(s, k, k + Len(p) - 1) = p

\* block b of record rec has a line for a field exactly when the record
\* holds a value for it, and its wind line names a direction only when the
\* record holds one
LinesOnlyOfPopulated(b, rec) ==
  /\ \A f \in DOMAIN FieldLabel : (LinesOf(b, FieldLabel[f]) # {}) <=> Populated(rec, f)
  /\ "wind_direction" \notin DOMAIN rec =>
       \A k \in LinesOf(b, Label.Wind) : ~Holds(b[k], Label.From)

IceAttributes == <<"ice_type", "ice_thickness", "floe_size", "topography">>

\* the parts of a line that blank, dash, blank separate
DashParts(line) ==
  Pieces(line, {k \in 2..(Len(line) - 1) :
                  line[k] = "-" /\ line[k - 1] = " " /\ line[k + 1] = " "})

\* the parts name the four attributes of category ice, N/A for a blank one
NamesAttributes(parts, ice) ==
  /\ Len(parts) = 5
  /\ \A j \in 1..4 :
       Trim(parts[j + 1]) =
         IF ice[IceAttributes[j]] = <<>> THEN NotAvailable ELSE ice[IceAttributes[j]]

BlockAsAmended(b, rec) ==
  /\ LinesOnlyOfPopulated(b, rec)
  /\ \A slot \in ReportSlots \cap DOMAIN rec :
       NamesAttributes(DashParts(b[Least(LinesOf(b, FieldLabel[slot]))]), rec[slot])

\* C19 (as amended): the block of a record has a line for a field only when
\* the record holds a value for it (a blank text gives no line); the line of
\* a category the record holds names its four attributes, N/A standing for
\* a blank one.
C19_BlankAttributeNotAvailable ==
  pc = "report" =>
    \A i \in 1..Len(records) : BlockAsAmended(BlockOf(ReportLines, i), records[i])

\* a report of a record with a blank text and a category with a blank
\* attribute
C19_Witness ==
  /\ pc = "report"
  /\ \E i \in 1..Len(records) :
       /\ "primary_ice" \in DOMAIN records[i] /\ records[i].primary_ice.ice_type = <<>>
       /\ "weather" \in DOMAIN records[i] /\ records[i].weather = <<>>
       /\ "air_temp" \notin DOMAIN records[i]
       /\ LinesOf(BlockOf(ReportLines, i), FieldLabel["primary_ice"]) # {}

BlockAsClaimed(b, rec) ==
  /\ LinesOnlyOfPopulated(b, rec)
  /\ \A slot \in ReportSlots \cap DOMAIN rec :
       \A j \in 1..4 :
         rec[slot][IceAttributes[j]] = <<>> => \A k \in 1..Len(b) : ~Holds(b[k], NotAvailable)

\* C19: the block of a record lists only populated fields: a field or an
\* attribute that is absent or blank gives no line and no placeholder value
\* in the block.
C19_OnlyPopulatedListed ==
  pc = "report" =>
    \A i \in 1..Len(records) : BlockAsClaimed(BlockOf(ReportLines, i), records[i])

(***************************************************************************)
(* The Import page and the store.                                          *)
(***************************************************************************)
\* C17: in every state of the Import page, no observationAPI.create call
\* has been started for a record of a decode result whose error list is not
\* empty.
C17_NoWriteFromResultWithErrors ==
  pc = "page" => \A k \in 1..Len(writes) : writes[k].errors = 0

\* the page shows a result with an accepted record and an error, a cruise is
\* selected and no import runs, after an import that started writes
C17_Witness ==
  /\ pc = "page"
  /\ ~page.left /\ page.file # <<>> /\ page.cruiseId # "" /\ ~page.importing
  /\ page.result # <<>>
  /\ page.result[1].errors # <<>>
  /\ page.result[1].observations # <<>>
  /\ writes # <<>>

\* the record write k is for: what it adds, without cruise and uuid
RecordWritten(k) ==
  [f \in DOMAIN writes[k].observation \ {"cruise", "uuid"} |-> writes[k].observation[f]]

\* the other writes of the import of write k
Siblings(k) == WritesOf(writes, writes[k].import) \ {k}

\* C18: an import starts exactly one write per accepted record; if the write
\* of record k fails, no write of a record after k is attempted, and the
\* records written before k stay in the store.
C18_NoWriteAfterFailedWrite ==
  (pc = "page" /\ deleting.step = "idle") =>
    \A k \in 1..Len(writes) :
      /\ \A j \in Siblings(k) : RecordWritten(j) # RecordWritten(k)
      /\ writes[k].state = "failed" =>
           /\ \A j \in Siblings(k) : j < k
           /\ \A j \in Siblings(k) : writes[j].state = "added" => j \in db.observations

\* C20: when cruiseAPI.delete(uuid) returns, the store holds neither the
\* cruise nor an observation whose cruise is uuid, whatever other store
\* operations ran while it was awaited.
C20_DeleteCascades ==
  [][(deleting.step = "cruise" /\ deleting'.step = "done") =>
       /\ deleting.uuid \notin db'.cruises
       /\ \A k \in db'.observations : writes'[k].observation.cruise # deleting.uuid]_vars

(***************************************************************************)
(* The line scanner of parseAspectTextFile.                                *)
(***************************************************************************)
\* the forEach callback is about to run on a line that is not blank, after
\* the header has been read
AtLineAfterHeader ==
  /\ format = "aspect" /\ pc = "lines" /\ lineIndex < Len(lines)
  /\ headerParsed
  /\ Trim(lines[lineIndex + 1]) # <<>>

\* the step added exactly one record and no error
OneRecordAdded ==
  /\ Len(result'.observations) = Len(result.observations) + 1
  /\ result'.errors = result.errors

\* the step added no record and exactly one error, which cites line n
OneErrorAdded(n) ==
  /\ result'.observations = result.observations
  /\ Len(result'.errors) = Len(result.errors) + 1
  /\ SubSeq(result'.errors, 1, Len(result.errors)) = result.errors
  /\ result'.errors[Len(result'.errors)].row = n

\* C21: once the header has been read, every line that is not blank yields
\* exactly one accepted record or exactly one error that cites its line
\* number; no such line is skipped without an outcome.
C21_EveryLineAfterHeaderHasOutcome ==
  [][(AtLineAfterHeader /\ lineIndex' = lineIndex + 1) =>
       (OneRecordAdded \/ OneErrorAdded(lineIndex + 1))]_vars

\* the steps so far that worked on a line that is not blank, after step i
NonBlankAfter(i) == {j \in (i + 1)..Len(outcome) : Trim(lines[j]) # <<>>}

\* the result holds one record per "record" step and one error per "error"
\* or "metaError" step
OutcomesCounted ==
  /\ Len(result.observations) = Len(Steps("record"))
  /\ Len(result.errors) = Len(Steps("error")) + Len(Steps("metaError"))

\* C22: the scanner only moves forward: a line before the marker line
\* gives no record and, but for a malformed preamble on line 1, no error;
\* the first line after the marker that is not blank is taken as the header
\* and gives no record and no error; records come only after a marker and a
\* header.
C22_ScannerMovesForward ==
  format = "aspect" =>
    /\ OutcomesCounted
    /\ \A i \in 1..Len(outcome) :
         /\ (\A j \in 1..i : outcome[j] # "marker") =>
              /\ outcome[i] \in {"blank", "ignored", "meta", "metaError"}
              /\ outcome[i] = "metaError" => i = 1
         /\ (outcome[i] = "marker" /\ \A j \in 1..(i - 1) : outcome[j] # "marker") =>
              (NonBlankAfter(i) # {} => outcome[Least(NonBlankAfter(i))] = "header")
         /\ outcome[i] = "record" =>
              \E j \in 1..(i - 1) : \E k \in (j + 1)..(i - 1) :
                outcome[j] = "marker" /\ outcome[k] = "header"

\* the lines of the file that are not blank
NonBlankLines == {i \in 1..Len(lines) : Trim(lines[i]) # <<>>}

\* the text is a metadata object
IsMetaObject(trimmed) == StartsWith(trimmed, <<"{">>) /\ JsonParse(trimmed).ok

\* C23: when the first line of the file that is not blank is a metadata
\* object, cruiseMeta is that object, however many blank lines precede it.
C23_MetaFromFirstNonBlankLine ==
  (format = "aspect" /\ pc = "done" /\ NonBlankLines # {}) =>
    (IsMetaObject(Trim(lines[Least(NonBlankLines)])) =>
       result.cruiseMeta = <<JsonParse(Trim(lines[Least(NonBlankLines)])).obj>>)

(***************************************************************************)
(* AspectCruiseMeta: the members the interface declares.                   *)
(***************************************************************************)
AspectCruiseMeta ==
  { <<"n","a","m","e">>,
    <<"v","o","y","a","g","e","_","l","e","a","d","e","r">>,
    <<"c","a","p","t","a","i","n","_","n","a","m","e">>,
    <<"v","o","y","a","g","e","_","v","e","s","s","e","l">>,
    <<"s","t","a","r","t","_","d","a","t","e">>,
    <<"e","n","d","_","d","a","t","e">> }

\* C24: cruiseMeta holds only members AspectCruiseMeta declares: a key of the
\* metadata object outside the six is not in cruiseMeta, and a declared key
\* absent from the object is not in cruiseMeta either.
C24_OnlyRecognizedMembers ==
  (format = "aspect" /\ result.cruiseMeta # <<>>) =>
    /\ DOMAIN result.cruiseMeta[1] \subseteq AspectCruiseMeta
    /\ \A k \in AspectCruiseMeta :
         k \notin DOMAIN JsonParse(Trim(lines[1])).obj => k \notin DOMAIN result.cruiseMeta[1]

(***************************************************************************)
(* parseAspectTextFile under a permutation of the columns: files of a     *)
(* marker line, a header line and one or two data rows.                    *)
(***************************************************************************)
\* date;time;latitude;longitude
HeaderDated == <<"d","a","t","e",";","t","i","m","e",";","l","a","t","i","t","u","d","e",";","l","o","n","g","i","t","u","d","e">>

\* latitude;latitude;longitude;date
HeaderTwice == <<"l","a","t","i","t","u","d","e",";","l","a","t","i","t","u","d","e",";","l","o","n","g","i","t","u","d","e",";","d","a","t","e">>

\* date; latitude;longitude
HeaderSpaced == <<"d","a","t","e",";"," ","l","a","t","i","t","u","d","e",";","l","o","n","g","i","t","u","d","e">>

\* time;latitude;longitude
HeaderNoDate == <<"t","i","m","e",";","l","a","t","i","t","u","d","e",";","l","o","n","g","i","t","u","d","e">>

\* date;time;longitude
HeaderNoLat == <<"d","a","t","e",";","t","i","m","e",";","l","o","n","g","i","t","u","d","e">>

\* latitude;open_water_type;date
HeaderNoLon == <<"l","a","t","i","t","u","d","e",";","o","p","e","n","_","w","a","t","e","r","_","t","y","p","e",";","d","a","t","e">>

\* 2026-01-10;-65.5;-64.25
RowThree == <<"2","0","2","6","-","0","1","-","1","0",";","-","6","5",".","5",";","-","6","4",".","2","5">>

\* -65.5;10;-64.25;2026-01-10
RowFour == <<"-","6","5",".","5",";","1","0",";","-","6","4",".","2","5",";","2","0","2","6","-","0","1","-","1","0">>

\* 2026-01-10; -65.5
RowShort == <<"2","0","2","6","-","0","1","-","1","0",";"," ","-","6","5",".","5">>

\* 10:00:00;-65.5;-64.25;2026-01-12
RowTimed == <<"1","0",":","0","0",":","0","0",";","-","6","5",".","5",";","-","6","4",".","2","5",";","2","0","2","6","-","0","1","-","1","2">>

ColumnHeaders == {HeaderMin, HeaderDated, HeaderTwice, HeaderSpaced, HeaderNoDate, HeaderNoLat, HeaderNoLon}

ColumnRows == {RowMinGood, RowGoodB, RowThree, RowFour, RowShort, RowTimed}

MaxColumnRows == 2

ColumnFiles ==
  {<<Marker, h>> \o r : h \in ColumnHeaders,
                        r \in SeqsUpTo(ColumnRows, MaxColumnRows) \ {<<>>}}

InitColumns ==
  /\ format = "aspect"
  /\ lines \in ColumnFiles
  /\ pc = "lines"
  /\ Locals
  /\ OthersIdle

\* parseAspectTextFile on the files of ColumnFiles
SpecColumns == InitColumns /\ [][NextAspect]_vars

\* the permutations of 1..n
ColumnOrders(n) == {p \in [1..n -> 1..n] : \A i, j \in 1..n : p[i] = p[j] => i = j}

\* cells[i], or the empty cell past the end of a short row
CellAt(cells, i) == IF i <= Len(cells) THEN cells[i] ELSE <<>>

\* the first n cells rearranged by p, a short row filled up with empty cells
PermuteCells(cells, p, n) ==
  [i \in 1..(IF Len(cells) > n THEN Len(cells) ELSE n) |->
     IF i <= n THEN CellAt(cells, p[i]) ELSE cells[i]]

\* a header or data line with its first n columns rearranged by p
PermuteLine(line, p, n) == Join(PermuteCells(Split(Trim(line), ";"), p, n), <<";">>)

\* the columns of the header line of a file <<marker, header, rows>>
ColumnsOf(ls) == Split(Trim(ls[2]), ";")

\* the file with the columns of the header and of every row rearranged by p
PermuteFile(ls, p) ==
  [i \in 1..Len(ls) |-> IF i = 1 THEN ls[1] ELSE PermuteLine(ls[i], p, Len(ColumnsOf(ls)))]

\* the decode of ls gives the observations and errors of res
SameOutcome(ls, res) ==
  /\ ParseAspectTextFile(ls).observations = res.observations
  /\ ParseAspectTextFile(ls).errors = res.errors

\* every rearrangement of the columns of the file decodes to res
ColumnOrderFree(ls, res) ==
  \A p \in ColumnOrders(Len(ColumnsOf(ls))) : SameOutcome(PermuteFile(ls, p), res)

\* the header names differ from each other and carry no outer white space
PlainColumns(cols) ==
  /\ \A i, j \in 1..Len(cols) : cols[i] = cols[j] => i = j
  /\ \A i \in 1..Len(cols) : Trim(cols[i]) = cols[i]

\* every data row of the finished file was rejected
AllRowsRejected == result.observations = <<>> /\ Len(result.errors) = Len(lines) - 2

\* a file of ColumnFiles is decoded
ColumnsDone == format = "aspect" /\ pc = "done" /\ lines \in ColumnFiles

\* get(field) gives '' on every row when the header lacks the name, and the
\* rows are all rejected when the name is date, latitude or longitude
AbsentIsNotPresent ==
  /\ \A f \in {F[k] : k \in DOMAIN F} \ Range(ColumnsOf(lines)) : \A i \in 3..Len(lines) :
       AspectGet(Split(Trim(lines[i]), ";"), ColumnsOf(lines), f) = <<>>
  /\ ({F.date, F.latitude, F.longitude} \ Range(ColumnsOf(lines)) # {}) => AllRowsRejected

\* C25 as stated: rearranging the header columns and the values of every row
\* by one permutation gives the same observations and errors, and a
\* recognized name absent from the header is 'not present' on every row.
C25_ColumnOrderFree ==
  ColumnsDone => (ColumnOrderFree(lines, result) /\ AbsentIsNotPresent)

\* C25: when the header names differ from each other and carry no outer white
\* space, rearranging the header columns and the values of every row by one
\* permutation gives the same observations and the same errors; a recognized
\* name absent from the header reads as '' on every row, and every row is
\* rejected when the absent name is date, latitude or longitude.
C25_PlainColumnOrderFree ==
  ColumnsDone =>
    /\ PlainColumns(ColumnsOf(lines)) => ColumnOrderFree(lines, result)
    /\ AbsentIsNotPresent

\* a file with plain columns not in the usual order gave a record and an error
C25_Witness ==
  /\ ColumnsDone
  /\ PlainColumns(ColumnsOf(lines))
  /\ ColumnsOf(lines)[1] = F.longitude
  /\ Len(result.observations) = 1
  /\ Len(result.errors) = 1

(***************************************************************************)
(* parseObservationsCsv on rows that differ in their three required cells. *)
(***************************************************************************)
\* Date/Time,Latitude,Longitude
CsvHeaderPlain == <<"D","a","t","e","/","T","i","m","e",",","L","a","t","i","t","u","d","e",",","L","o","n","g","i","t","u","d","e">>

\* 2025-12-26,-65.5,-64.25
CsvPlainGood == <<"2","0","2","5","-","1","2","-","2","6",",","-","6","5",".","5",",","-","6","4",".","2","5">>

\* 2025-12-27,-65.5S,-64.25
CsvLatSuffix == <<"2","0","2","5","-","1","2","-","2","7",",","-","6","5",".","5","S",",","-","6","4",".","2","5">>

\* 2025-12-27,-65.5,64.25 W
CsvLonSuffix == <<"2","0","2","5","-","1","2","-","2","7",",","-","6","5",".","5",",","6","4",".","2","5"," ","W">>

\* 2025-12-28,south,-64.25
CsvLatText == <<"2","0","2","5","-","1","2","-","2","8",",","s","o","u","t","h",",","-","6","4",".","2","5">>

\* 2025-12-29,-95,-64.25
CsvLatBelow == <<"2","0","2","5","-","1","2","-","2","9",",","-","9","5",",","-","6","4",".","2","5">>

\* 2025-12-29,-65.5,181
CsvLonAbove == <<"2","0","2","5","-","1","2","-","2","9",",","-","6","5",".","5",",","1","8","1">>

\* yesterday,-65.5,-64.25
CsvDateText == <<"y","e","s","t","e","r","d","a","y",",","-","6","5",".","5",",","-","6","4",".","2","5">>

\* 2025-12-30x,-65.5,-64.25
CsvDateJunk == <<"2","0","2","5","-","1","2","-","3","0","x",",","-","6","5",".","5",",","-","6","4",".","2","5">>

CellRows ==
  {CsvPlainGood, CsvLatSuffix, CsvLonSuffix, CsvLatText,
   CsvLatBelow, CsvLonAbove, CsvDateText, CsvDateJunk}

CellFiles == {<<CsvHeaderPlain>> \o r : r \in SeqsUpTo(CellRows, MaxRows) \ {<<>>}}

InitCells ==
  /\ format = "csv"
  /\ lines \in CellFiles
  /\ pc = "parse"
  /\ Locals
  /\ OthersIdle

\* parseObservationsCsv on the files of CellFiles
SpecCells == InitCells /\ [][NextCsv]_vars

\* u holds digits with at most one point among them, and nothing else
DigitsAndPoint(u) ==
  /\ \E i \in 1..Len(u) : IsDigit(u[i])
  /\ \A i \in 1..Len(u) : IsDigit(u[i]) \/ u[i] = "."
  /\ \A i, j \in 1..Len(u) : (u[i] = "." /\ u[j] = ".") => i = j

\* the cell is, from its first character to its last, a decimal number
WholeDecimal(cell) ==
  IF cell # <<>> /\ Head(cell) \in {"+", "-"} THEN DigitsAndPoint(Tail(cell))
  ELSE DigitsAndPoint(cell)

\* the cell is a whole decimal number between lo and hi
DecimalWithin(cell, lo, hi) == WholeDecimal(cell) /\ Within(ParseFloat(cell), lo, hi)

\* the row has a Date/Time that is no timestamp, or a Latitude or Longitude
\* that is no whole decimal number of its range
Unfit(row) ==
  \/ ~ParseDate(CsvCell(row, H.DateTime)).valid
  \/ ~DecimalWithin(CsvCell(row, H.Latitude), -90, 90)
  \/ ~DecimalWithin(CsvCell(row, H.Longitude), -180, 180)

\* C26: in parseObservationsCsv a data row whose Date/Time is no timestamp, or
\* whose Latitude or Longitude is not as a whole a decimal number of its
\* range, adds no record and one error that carries the row number.
C26_UnfitRowRejected ==
  [][(format = "csv" /\ pc = "rows" /\ lineIndex' = lineIndex + 1
        /\ Unfit(parsed.data[lineIndex + 1]))
       => OneErrorAdded(CsvErrorRow(lineIndex))]_vars

\* C27: while a file is selected, a decode result held by the Import page is
\* the decode of that file: a preview started for a file selected earlier
\* never becomes the result shown for a file selected later.
C27_ResultOfSelectedFile ==
  (pc = "page" /\ page.result # <<>> /\ page.file # <<>>) =>
    page.result[1] = Decode(page.file[1])

\* no line of the file is, trimmed, the marker line
NoMarkerLine == \A i \in 1..Len(lines) : Trim(lines[i]) # Marker

\* line 1 opens an object that JSON.parse rejects
MalformedPreamble ==
  /\ lines # <<>>
  /\ StartsWith(Trim(lines[1]), <<"{">>)
  /\ ~JsonParse(Trim(lines[1])).ok

\* the errors hold nothing but the error of the preamble
OnlyPreambleError ==
  \A e \in 1..Len(result.errors) :
    result.errors[e] = ErrorEntry(1, "Failed to parse cruise metadata JSON", <<>>)

\* C28: a content without a line whose trimmed text is ---OBSERVATIONS---,
\* the token inside a longer line included, decodes to no observation and no
\* row error; unless its preamble is malformed, success is true and imported
\* is 0.
C28_NoMarkerNoRows ==
  (format = "aspect" /\ NoMarkerLine) =>
    /\ result.observations = <<>>
    /\ OnlyPreambleError
    /\ (pc = "done" /\ ~MalformedPreamble) =>
         (result.success /\ result.imported = 0 /\ result.errors = <<>>)

\* a file with the token inside a longer line, followed by a header and a
\* valid row, is decoded
C28_Witness ==
  /\ format = "aspect" /\ pc = "done" /\ NoMarkerLine
  /\ \E i \in 1..Len(lines) : Includes(lines[i], Marker)
  /\ \E i \in 1..Len(lines) : lines[i] = RowGoodA
  /\ result.success

\* C29: the ImportResult of either decoder has success true exactly when its
\* errors are empty, and imported equal to the number of its observations.
C29_SuccessAndImported ==
  pc = "done" =>
    /\ result.success = (result.errors = <<>>)
    /\ result.imported = Len(result.observations)

\* a decode with a record and an error is done, and so is one without errors
C29_Witness ==
  /\ pc = "done"
  /\ result.observations # <<>>
  /\ result.errors # <<>>
  /\ result.imported = Len(result.observations)
  /\ ~result.success

(***************************************************************************)
(* cruiseAPI.update and observationAPI.update on the records of the store, *)
(* called by the edit forms and by callers that pass the changed members   *)
(* only or the whole stored record.                                        *)
(***************************************************************************)
MaxUpdates == 3

\* updates.localChanges || 0
LocalChangesOrZero(updates) ==
  IF "localChanges" \in DOMAIN updates THEN updates.localChanges ELSE 0

\* {...updates, localChanges: (updates.localChanges || 0) + 1}
WithLocalChanges(updates) ==
  ("localChanges" :> (LocalChangesOrZero(updates) + 1)) @@ updates

\* Table.update(key, changes) of Dexie: the changes are written over the
\* members of the record with that key; nothing happens without the record
TableUpdate(table, uuid, changes) ==
  IF uuid \in DOMAIN table THEN [table EXCEPT ![uuid] = changes @@ @] ELSE table

\* cruiseAPI.update(uuid, updates)
CruiseApiUpdate(st, uuid, updates) ==
  [st EXCEPT !.cruises = TableUpdate(@, uuid, WithLocalChanges(updates))]

\* observationAPI.update(uuid, updates)
ObservationApiUpdate(st, uuid, updates) ==
  [st EXCEPT !.observations = TableUpdate(@, uuid, WithLocalChanges(updates))]

\* cruiseData of the cruise form, of its members the name
CruiseData(name) ==
  [name |-> name, syncStatus |-> SyncLocal, published |-> FALSE, localChanges |-> 0]

\* obsData of the observation form, of its members the cruise and comments
ObsData(cruiseId, comments) ==
  [cruise |-> cruiseId, comments |-> comments, syncStatus |-> SyncLocal, localChanges |-> 0]

StoreTexts == {<<"a">>, <<"b">>}

\* a cruise created by the cruise form and an observation created by an import
InitStore ==
  /\ format = ""
  /\ lines = <<>>
  /\ pc = "store"
  /\ Locals
  /\ filename = <<>>
  /\ ExportIdle
  /\ PageIdle
  /\ store = [cruises |-> ("c1" :> CruiseData(<<"a">>)),
              observations |->
                ("o1" :> [ObsData("c1", <<"a">>) EXCEPT !.localChanges = 1])]
  /\ calls = <<>>

StoreFrame == UNCHANGED <<decoderVars, filename, exportVars, pageVars>>

Called(table, uuid, updates) ==
  /\ Len(calls) < MaxUpdates
  /\ calls' = Append(calls, [table |-> table, uuid |-> uuid, updates |-> updates])
  /\ StoreFrame

\* handleSubmit of the cruise form, editing the cruise uuid
CruiseSubmit(uuid, name) ==
  /\ uuid \in DOMAIN store.cruises
  /\ store' = CruiseApiUpdate(store, uuid, CruiseData(name))
  /\ Called("cruises", uuid, CruiseData(name))

\* handleSubmit of the observation form, editing the observation uuid
ObservationSubmit(uuid, comments) ==
  /\ uuid \in DOMAIN store.observations
  /\ store' = ObservationApiUpdate(store, uuid, ObsData(store.observations[uuid].cruise, comments))
  /\ Called("observations", uuid, ObsData(store.observations[uuid].cruise, comments))

\* cruiseAPI.update with the name alone, or with the stored record and a name
CruiseUpdate(uuid, name, whole) ==
  /\ uuid \in DOMAIN store.cruises
  /\ \E updates \in {IF whole THEN [store.cruises[uuid] EXCEPT !.name = name]
                     ELSE [name |-> name]} :
       /\ store' = CruiseApiUpdate(store, uuid, updates)
       /\ Called("cruises", uuid, updates)

\* observationAPI.update with the comments alone, or with the stored record
\* and comments
ObservationUpdate(uuid, comments, whole) ==
  /\ uuid \in DOMAIN store.observations
  /\ \E updates \in {IF whole THEN [store.observations[uuid] EXCEPT !.comments = comments]
                     ELSE [comments |-> comments]} :
       /\ store' = ObservationApiUpdate(store, uuid, updates)
       /\ Called("observations", uuid, updates)

NextStore ==
  \/ \E name \in StoreTexts : CruiseSubmit("c1", name)
  \/ \E comments \in StoreTexts : ObservationSubmit("o1", comments)
  \/ \E name \in StoreTexts, whole \in BOOLEAN : CruiseUpdate("c1", name, whole)
  \/ \E comments \in StoreTexts, whole \in BOOLEAN : ObservationUpdate("o1", comments, whole)

\* the update calls on the store
SpecStore == InitStore /\ [][NextStore]_vars

\* the record the call c is about, in the store st
RecordOfCall(st, c) == st[c.table][c.uuid]

\* C30: every call of cruiseAPI.update or observationAPI.update on an existing
\* record, the calls of the edit forms with localChanges: 0 included, leaves
\* the stored localChanges one above the value stored before the call.
C30_UpdateCountsOne ==
  [][(pc = "store" /\ Len(calls') = Len(calls) + 1) =>
       RecordOfCall(store', calls'[Len(calls')]).localChanges =
         RecordOfCall(store, calls'[Len(calls')]).localChanges + 1]_vars

=============================================================================
